---------------------------- MODULE Spec2Model ----------------------------
(***************************************************************************)
(* A model of the GradCafe pipeline of thinkTanck/jhu_software_concepts:   *)
(*   - module_4/src/load_data.py   load_rows and its parsing helpers       *)
(*   - module_3/load_data.py       main (batched commits, plain INSERT)    *)
(*   - module_2/scrape.py          check_robots_txt, make_request,         *)
(*                                 scrape_data                             *)
(*                                                                         *)
(* Values.  A Python str is a sequence of tokens (strings): a token is a   *)
(* maximal word, a number, one whitespace character " " or one separator   *)
(* character ("|", ",", "/").  "" is << >>.  Python None and SQL NULL are  *)
(* the value None, which is no text (its token is in no alphabet).  A      *)
(* date is << year, month, day >> in zero-padded tokens; a float is a      *)
(* one-token sequence holding its canonical rendering.                     *)
(***************************************************************************)
EXTENDS Integers, Sequences, FiniteSets, TLC

VARIABLES
    \* ---- storage (PostgreSQL table applicants) ----
    table,        \* committed rows, in insertion order
    pending,      \* rows inserted by the open transaction, not yet committed
    \* ---- module_4 load_rows ----
    lpc,          \* "idle" | "loop"
    rows,         \* the argument rows of the running call
    pos,          \* number of rows the for loop has processed
    inserted,     \* the local inserted
    calls,        \* history: one record per finished call
    \* ---- module_3 main ----
    m3pc,         \* "off" | "loop" | "done" | "crashed" | "raised"
    m3data,       \* the JSON list
    m3pos,        \* rows processed by the running process
    m3inserted,   \* the local inserted
    m3unique,     \* whether the table main writes to carries the UNIQUE constraint
    m3runs,       \* history: how the earlier runs of main ended
    \* ---- module_2 scrape_data ----
    cpc,          \* "start" | "check" | "fetch" | "extract" | "done"
    TARGET_ENTRIES,
    robots_outcome, \* history: what robotparser did inside check_robots_txt
    robots,       \* "allowed" | "disallowed": what check_robots_txt returned ("unset" before)
    all_entries,
    current_page,
    pages_successfully_scraped,
    consecutive_empty,
    target_reached,
    html_content, \* result of make_request for current_page
    result,       \* the returned tuple, once cpc = "done"
    events,       \* history: the sleeps and requests of the iteration under way
    page_log,     \* history: page_log[p] = what page p gave
    requested,    \* history: the pages make_request was called for, in order
    logged,       \* history: the kinds of message printed
    \* ---- module_2 make_request alone ----
    fpc,          \* "off" | "env" | "returned"
    fenv,         \* the outcomes urlopen will give, attempt by attempt
    fres,         \* what make_request returned and did
    \* ---- module_2 extract_entries_from_page ----
    xpc,          \* "off" | "start" | "rows" | "done"
    soup,         \* the elements of the parsed page, in document order
    xrows,        \* the local rows
    xpos,         \* number of rows the for loop has processed
    xentries,     \* the local entries
    \* ---- module_4 module_2/clean.py clean_data ----
    kpc,          \* "off" | "loop" | "done"
    raw_entries,  \* the argument entries
    kpos,         \* number of entries the for loop has processed
    cleaned_entries, \* the local cleaned_entries
    clean_log,    \* history: per entry kept, its index, its key-mapped fields,
                  \* whether _extract_from_raw_html ran
    \* ---- module_4 / module_5 app.py ----
    _busy,        \* the module-level busy flag
    DATABASE_URL, \* whether app.config holds a DATABASE_URL
    req,          \* per request: route, position in its handler, response, history
    scraper_calls,   \* history: calls of SCRAPER_FN
    loader_calls,    \* history: calls of LOADER_FN
    connections,     \* history: connections psycopg.connect returned
    open_conns,      \* connections opened and not yet closed
    \* ---- module_4 load_data.py: the notes helpers, called alone ----
    npc,          \* "off" | "split" | "university" | "program" | "done"
    ntext,        \* the argument text
    nparts,       \* what split_notes returned
    nuniversity,  \* what extract_university_from_notes returned
    nprogram,     \* what extract_program_from_notes returned
    \* ---- module_3 app.py ----
    scrape_running,  \* scrape_status.scrape_running
    proc,            \* the scraper subprocess: "none" | "running" | "finished"
    flashes          \* history: the last messages the requests flashed

storeVars == << table, pending >>
loadVars  == << lpc, rows, pos, inserted, calls >>
m3Vars    == << m3pc, m3data, m3pos, m3inserted, m3unique, m3runs >>
crawlVars == << cpc, TARGET_ENTRIES, robots_outcome, robots, all_entries, current_page,
                pages_successfully_scraped, consecutive_empty, target_reached,
                html_content, result, events, page_log, requested, logged >>
fetchVars == << fpc, fenv, fres >>
extractVars == << xpc, soup, xrows, xpos, xentries >>
cleanVars == << kpc, raw_entries, kpos, cleaned_entries, clean_log >>
appVars   == << _busy, DATABASE_URL, req, scraper_calls, loader_calls, connections, open_conns >>
notesVars == << npc, ntext, nparts, nuniversity, nprogram >>
statusVars == << scrape_running, proc, flashes >>
moreVars  == << notesVars, statusVars >>
extVars   == << extractVars, cleanVars, appVars, moreVars >>
vars      == << storeVars, loadVars, m3Vars, crawlVars, fetchVars, extVars >>

-----------------------------------------------------------------------------
(***************************************************************************)
(* Values and text helpers                                                 *)
(***************************************************************************)

None == << "None" >>

\* Python truthiness of an optional str: None and "" are falsy.
Truthy(v) == v # None /\ v # << >>

\* a or b
Or(a, b) == IF Truthy(a) THEN a ELSE b

IsSpace(t) == t = " "

RECURSIVE LStrip(_)
LStrip(s) == IF s # << >> /\ IsSpace(Head(s)) THEN LStrip(Tail(s)) ELSE s

RECURSIVE RStrip(_)
RStrip(s) ==
    IF s # << >> /\ IsSpace(s[Len(s)]) THEN RStrip(SubSeq(s, 1, Len(s) - 1)) ELSE s

\* str.strip()
Strip(s) == RStrip(LStrip(s))

\* str.lower() on one token, for the re.I searches
LowerMap ==
    [t \in { "Accepted", "ACCEPTED", "Rejected", "Waitlisted", "Wait", "Listed",
             "Fall", "Spring", "Summer", "International", "American", "US",
             "Citizen", "PhD", "PHD", "Masters", "Master", "Master's",
             "University", "Stanford", "Yale", "MIT", "GPA", "GRE" } |->
        CASE t \in { "Accepted", "ACCEPTED" } -> "accepted"
          [] t = "Rejected" -> "rejected"
          [] t = "Waitlisted" -> "waitlisted"
          [] t = "Wait" -> "wait"
          [] t = "Listed" -> "listed"
          [] t = "Fall" -> "fall"
          [] t = "Spring" -> "spring"
          [] t = "Summer" -> "summer"
          [] t = "International" -> "international"
          [] t = "American" -> "american"
          [] t = "US" -> "us"
          [] t = "Citizen" -> "citizen"
          [] t \in { "PhD", "PHD" } -> "phd"
          [] t = "Masters" -> "masters"
          [] t = "Master" -> "master"
          [] t = "Master's" -> "master's"
          [] t = "University" -> "university"
          [] t = "Stanford" -> "stanford"
          [] t = "Yale" -> "yale"
          [] t = "MIT" -> "mit"
          [] t = "GPA" -> "gpa"
          [] t = "GRE" -> "gre"]

Lower(t) == IF t \in DOMAIN LowerMap THEN LowerMap[t] ELSE t

\* index of the first token at or after i that is not whitespace (Len(s)+1 if none)
RECURSIVE SkipSpaces(_, _)
SkipSpaces(s, i) ==
    IF i <= Len(s) /\ IsSpace(s[i]) THEN SkipSpaces(s, i + 1) ELSE i

\* re.search(r"\bw\b", text, re.I) for one word w
HasWord(s, w) == \E i \in 1..Len(s) : Lower(s[i]) = w

\* re.search(r"\bw1\s*w2\b") / r"\bw1 w2\b": w1, whitespace, w2
HasWordPair(s, w1, w2, minSpaces, maxSpaces) ==
    \E i \in 1..Len(s) :
        /\ Lower(s[i]) = w1
        /\ LET j == SkipSpaces(s, i + 1) IN
              /\ j <= Len(s)
              /\ Lower(s[j]) = w2
              /\ j - (i + 1) >= minSpaces
              /\ j - (i + 1) <= maxSpaces


-----------------------------------------------------------------------------
(***************************************************************************)
(* load_data.py: parsing helpers (module_3 and module_4 hold the same      *)
(* functions)                                                              *)
(***************************************************************************)

\* the tokens float() accepts, with the rendering of the float they give
FloatTable ==
    [t \in { "3.5", "3.8", "3.80", "3.95", "4.5", "320", "160", "16" } |->
        CASE t = "3.80" -> "3.8"
          [] t = "320" -> "320.0"
          [] t = "160" -> "160.0"
          [] t = "16" -> "16.0"
          [] OTHER -> t]

\* parse_float: float(value), None on TypeError / ValueError
parse_float(value) ==
    IF value = None THEN None
    ELSE LET s == Strip(value) IN
         IF Len(s) = 1 /\ s[1] \in DOMAIN FloatTable
         THEN << FloatTable[s[1]] >> ELSE None

MonthFull ==
    [t \in { "January", "February", "March", "May" } |->
        CASE t = "January" -> "01" [] t = "February" -> "02"
          [] t = "March" -> "03" [] t = "May" -> "05"]

MonthAbbr ==
    [t \in { "Jan", "Feb", "Mar", "May" } |->
        CASE t = "Jan" -> "01" [] t = "Feb" -> "02"
          [] t = "Mar" -> "03" [] t = "May" -> "05"]

MonthNum ==
    [t \in { "01", "1", "02", "2", "03", "3", "05", "5" } |->
        CASE t \in { "01", "1" } -> "01" [] t \in { "02", "2" } -> "02"
          [] t \in { "03", "3" } -> "03" [] t \in { "05", "5" } -> "05"]

DayNum ==
    [t \in { "1", "01", "10", "15", "20", "30", "31" } |->
        CASE t \in { "1", "01" } -> 1 [] t = "10" -> 10 [] t = "15" -> 15
          [] t = "20" -> 20 [] t = "30" -> 30 [] t = "31" -> 31]

DayTok == [d \in { 1, 10, 15, 20, 30, 31 } |->
             CASE d = 1 -> "01" [] d = 10 -> "10" [] d = 15 -> "15"
               [] d = 20 -> "20" [] d = 30 -> "30" [] d = 31 -> "31"]

Year4 == { "2025", "2026" }

\* %y: 69..99 are 19xx, 00..68 are 20xx
Year2 ==
    [t \in { "25", "26", "99" } |->
        CASE t = "25" -> "2025" [] t = "26" -> "2026" [] t = "99" -> "1999"]

\* days of the month (none of the years above is a leap year)
DaysIn(m) == CASE m = "02" -> 28 [] m \in { "01", "03", "05" } -> 31

\* a run of whitespace counts once: strptime turns a blank of the format into \s+
RECURSIVE Squeeze(_)
Squeeze(s) ==
    IF Len(s) < 2 THEN s
    ELSE IF IsSpace(s[1]) /\ IsSpace(s[2]) THEN Squeeze(Tail(s))
    ELSE << s[1] >> \o Squeeze(Tail(s))

MkDate(y, m, dtok) ==
    IF DayNum[dtok] <= DaysIn(m) THEN << y, m, DayTok[DayNum[dtok]] >> ELSE None

\* datetime.strptime(v, "%B %d, %Y").date(), None for ValueError
StrpLongMonth(v) ==
    LET s == Squeeze(v) IN
    IF /\ Len(s) = 6
       /\ s[1] \in DOMAIN MonthFull /\ s[2] = " " /\ s[3] \in DOMAIN DayNum
       /\ s[4] = "," /\ s[5] = " " /\ s[6] \in Year4
    THEN MkDate(s[6], MonthFull[s[1]], s[3]) ELSE None

\* datetime.strptime(v, "%b %d, %Y").date(), None for ValueError
StrpShortMonth(v) ==
    LET s == Squeeze(v) IN
    IF /\ Len(s) = 6
       /\ s[1] \in DOMAIN MonthAbbr /\ s[2] = " " /\ s[3] \in DOMAIN DayNum
       /\ s[4] = "," /\ s[5] = " " /\ s[6] \in Year4
    THEN MkDate(s[6], MonthAbbr[s[1]], s[3]) ELSE None

\* datetime.strptime(v, "%m/%d/%y").date(), None for ValueError
StrpSlashes(v) ==
    IF /\ Len(v) = 5
       /\ v[1] \in DOMAIN MonthNum /\ v[2] = "/" /\ v[3] \in DOMAIN DayNum
       /\ v[4] = "/" /\ v[5] \in DOMAIN Year2
    THEN MkDate(Year2[v[5]], MonthNum[v[1]], v[3]) ELSE None

\* parse_date: the first of the three formats that parses, else None
parse_date(value) ==
    IF ~Truthy(value) THEN None
    ELSE LET v == Strip(value) IN
         IF StrpLongMonth(v) # None THEN StrpLongMonth(v)
         ELSE IF StrpShortMonth(v) # None THEN StrpShortMonth(v)
         ELSE StrpSlashes(v)

\* tokens that start with four digits / three digits / two or three digits / a number
Digits4 == { "2025", "2026" }
Digits3 == { "320", "160" }
Digits23 == Digits3 \cup { "16" }
DigitsDot == Digits23 \cup { "4.5", "3.8" }

\* first i with s[i] a term word, whitespace, then a 4-digit token: the match's span
TermMatches(s) ==
    { i \in 1..Len(s) :
        /\ Lower(s[i]) \in { "fall", "spring", "summer" }
        /\ LET j == SkipSpaces(s, i + 1) IN
              j > i + 1 /\ j <= Len(s) /\ s[j] \in Digits4 }

Min(S) == CHOOSE x \in S : \A y \in S : x <= y
Max(S) == CHOOSE x \in S : \A y \in S : x >= y

\* extract_term: re.search(r"(Fall|Spring|Summer)\s+\d{4}", text, re.I).group(0)
extract_term(text) ==
    IF ~Truthy(text) \/ TermMatches(text) = {} THEN None
    ELSE LET i == Min(TermMatches(text)) IN
         SubSeq(text, i, SkipSpaces(text, i + 1))

\* extract_nationality
extract_nationality(text) ==
    IF ~Truthy(text) THEN None
    ELSE IF HasWord(text, "international") THEN << "International" >>
    ELSE IF HasWord(text, "american") \/ HasWordPair(text, "us", "citizen", 1, 1)
         THEN << "American" >>
    ELSE None

\* extract_degree: \bphd\b, then \bmaster as a prefix
extract_degree(text) ==
    IF ~Truthy(text) THEN None
    ELSE IF HasWord(text, "phd") THEN << "PhD" >>
    ELSE IF \E i \in 1..Len(text) : Lower(text[i]) \in { "master", "masters", "master's" }
         THEN << "Masters" >>
    ELSE None

\* the number after the first "GRE" (then `mid`, when given) with the spacing asked
GreMatch(s, mid, minSpaces, digits) ==
    LET hits == { i \in 1..Len(s) :
                    /\ s[i] = "GRE"
                    /\ LET j == SkipSpaces(s, i + 1) IN
                       IF mid = "" THEN /\ j - (i + 1) >= minSpaces
                                        /\ j <= Len(s) /\ s[j] \in digits
                       ELSE /\ j <= Len(s) /\ s[j] = mid
                            /\ LET k == SkipSpaces(s, j + 1) IN
                                  k <= Len(s) /\ s[k] \in digits }
    IN IF hits = {} THEN None
       ELSE LET i == Min(hits)
                j == SkipSpaces(s, i + 1)
            IN IF mid = "" THEN << s[j] >> ELSE << s[SkipSpaces(s, j + 1)] >>

\* extract_gre_parts: (gre, gre_v, gre_aw)
extract_gre_parts(text) ==
    IF ~Truthy(text) THEN << None, None, None >>
    ELSE << parse_float(GreMatch(text, "", 1, Digits3)),
            parse_float(GreMatch(text, "V", 0, Digits23)),
            parse_float(GreMatch(text, "AW", 0, DigitsDot)) >>

\* text.split("|")
RECURSIVE SplitPipe(_)
SplitPipe(s) ==
    IF \A i \in 1..Len(s) : s[i] # "|" THEN << s >>
    ELSE LET i == Min({ k \in 1..Len(s) : s[k] = "|" }) IN
         << SubSeq(s, 1, i - 1) >> \o SplitPipe(SubSeq(s, i + 1, Len(s)))

\* keep the segments whose strip() is not empty, stripped
RECURSIVE StripNonEmpty(_)
StripNonEmpty(segs) ==
    IF segs = << >> THEN << >>
    ELSE IF Strip(Head(segs)) # << >>
         THEN << Strip(Head(segs)) >> \o StripNonEmpty(Tail(segs))
         ELSE StripNonEmpty(Tail(segs))

\* split_notes
split_notes(text) == IF ~Truthy(text) THEN << >> ELSE StripNonEmpty(SplitPipe(text))

\* extract_university_from_notes
extract_university_from_notes(text) ==
    LET parts == split_notes(text) IN IF parts # << >> THEN parts[1] ELSE None

\* extract_program_from_notes
extract_program_from_notes(text) ==
    LET parts == split_notes(text) IN IF Len(parts) >= 2 THEN parts[2] ELSE None

\* extract_status_from_notes
extract_status_from_notes(text) ==
    IF ~Truthy(text) THEN None
    ELSE IF HasWord(text, "accepted") THEN << "Accepted" >>
    ELSE IF HasWord(text, "rejected") THEN << "Rejected" >>
    ELSE IF HasWordPair(text, "wait", "listed", 0, Len(text)) \/ HasWord(text, "waitlisted")
         THEN << "Waitlisted" >>
    ELSE None

-----------------------------------------------------------------------------
(***************************************************************************)
(* Storage: the applicants table and INSERT                                *)
(***************************************************************************)

BASE_URL == << "https://www.thegradcafe.com/survey/" >>

\* the natural key of a row, as values (None is a value like any other)
KeyOf(r) == << r.comments, r.date_added, r.url >>

\* UNIQUE (comments, date_added, url): two rows violate it when the three columns
\* are equal and none of them is NULL (PostgreSQL: NULLs are distinct in a
\* unique constraint)
Conflicts(r, s) ==
    /\ r.comments # None /\ r.date_added # None /\ r.url # None
    /\ r.comments = s.comments /\ r.date_added = s.date_added /\ r.url = s.url

\* whether the row conflicts with a row the transaction sees
HasConflict(visible, r) == \E i \in 1..Len(visible) : Conflicts(visible[i], r)

\* INSERT ... ON CONFLICT (comments, date_added, url) DO NOTHING: cur.rowcount
RowCount(visible, r) == IF HasConflict(visible, r) THEN 0 ELSE 1

\* the values with the note-derived program and status taken first
RowValues_NotesFirst(row) ==
    LET notes == Or(Or(row.notes, row.comments), << >>)
        gre3  == extract_gre_parts(notes)
    IN [program |-> Or(extract_program_from_notes(notes), row.program),
        comments |-> notes,
        date_added |-> parse_date(row.decision_date),
        url |-> BASE_URL,
        status |-> Or(extract_status_from_notes(notes), row.decision),
        term |-> extract_term(notes),
        us_or_international |-> extract_nationality(notes),
        gpa |-> parse_float(row.gpa),
        gre |-> gre3[1],
        gre_v |-> gre3[2],
        gre_aw |-> gre3[3],
        degree |-> extract_degree(notes),
        llm_generated_program |-> row.llm_program,
        llm_generated_university |-> row.llm_university]

\* the values load_rows / main compute for one input dict
RowValues(row) ==
    LET notes == Or(Or(row.notes, row.comments), << >>)
        gre3  == extract_gre_parts(notes)
    IN [program |-> Or(row.program, extract_program_from_notes(notes)),
        comments |-> notes,
        date_added |-> parse_date(row.decision_date),
        url |-> BASE_URL,
        status |-> Or(row.decision, extract_status_from_notes(notes)),
        term |-> extract_term(notes),
        us_or_international |-> extract_nationality(notes),
        gpa |-> parse_float(row.gpa),
        gre |-> gre3[1],
        gre_v |-> gre3[2],
        gre_aw |-> gre3[3],
        degree |-> extract_degree(notes),
        llm_generated_program |-> row.llm_program,
        llm_generated_university |-> row.llm_university]

-----------------------------------------------------------------------------
(***************************************************************************)
(* Inputs of the loader                                                    *)
(***************************************************************************)

NotesMIT == << "MIT", " ", "|", " ", "CS", " ", "|", " ", "Fall", " ", "2026", " ",
               "|", " ", "International", " ", "|", " ", "PhD", " ", "|", " ",
               "accepted", " ", "|", " ", "GRE", " ", "320", " ", "GRE", " ", "V",
               " ", "160", " ", "GRE", " ", "AW", " ", "4.5" >>
NotesJHU == << "JHU", " ", "|", " ", "Math", " ", "|", " ", "Wait", " ", "Listed" >>

\* the dicts a scraper run may hand to the loader; a missing key reads as None
Records ==
    { \* a full record, as in the tests' FAKE_ROWS
      [notes |-> NotesMIT, comments |-> None, program |-> << "CS" >>,
       decision |-> << "Accepted" >>, gpa |-> << "3.8" >>,
       decision_date |-> << "January", " ", "15", ",", " ", "2026" >>,
       llm_program |-> << "CS" >>, llm_university |-> << "MIT" >>],
      \* the same notes and day in another date format, other non-key fields
      [notes |-> NotesMIT, comments |-> None, program |-> << "EE" >>,
       decision |-> << "Rejected" >>, gpa |-> << "3.5" >>,
       decision_date |-> << "01", "/", "15", "/", "26" >>,
       llm_program |-> None, llm_university |-> None],
      \* no decision date, as in test_buttons.fake_scraper
      [notes |-> NotesMIT, comments |-> None, program |-> << "CS" >>,
       decision |-> << "Accepted" >>, gpa |-> << "3.5" >>,
       decision_date |-> None,
       llm_program |-> None, llm_university |-> None],
      \* notes only under "comments", nothing structured, a date that parses
      [notes |-> << >>, comments |-> NotesJHU, program |-> << >>,
       decision |-> None, gpa |-> << >>,
       decision_date |-> << "Jan", " ", "15", ",", " ", "2026" >>,
       llm_program |-> None, llm_university |-> None] }

MaxRows == 2
MaxCalls == 2

RECURSIVE SeqsUpTo(_, _)
SeqsUpTo(S, n) ==
    IF n = 0 THEN { << >> }
    ELSE LET shorter == SeqsUpTo(S, n - 1) IN
         shorter \cup { Append(q, x) : q \in { t \in shorter : Len(t) = n - 1 }, x \in S }

RowLists == SeqsUpTo(Records, MaxRows)

-----------------------------------------------------------------------------
(***************************************************************************)
(* module_4 load_rows(rows, conn)                                          *)
(***************************************************************************)

\* load_rows is called with a fresh connection (pull_data, main)
LoadStart(rs) ==
    /\ lpc = "idle"
    /\ Len(calls) < MaxCalls
    /\ lpc' = "loop"
    /\ rows' = rs
    /\ pos' = 0
    /\ inserted' = 0
    /\ UNCHANGED << calls, storeVars >>

\* one iteration of `for row in rows`: compute the values, INSERT, count
LoadRow ==
    /\ lpc = "loop"
    /\ pos < Len(rows)
    /\ LET r == RowValues(rows[pos + 1])
           n == RowCount(table \o pending, r)
       IN /\ pending' = IF n = 1 THEN Append(pending, r) ELSE pending
          /\ inserted' = inserted + n
    /\ pos' = pos + 1
    /\ UNCHANGED << lpc, rows, calls, table >>

\* the loop is over: conn.commit(); return inserted
LoadCommit ==
    /\ lpc = "loop"
    /\ pos = Len(rows)
    /\ table' = table \o pending
    /\ pending' = << >>
    /\ calls' = Append(calls, [rows |-> rows, ret |-> inserted,
                               before |-> Len(table), after |-> Len(table \o pending)])
    /\ lpc' = "idle"
    /\ UNCHANGED << rows, pos, inserted >>

\* the connection fails during the call: the exception leaves load_rows, the
\* caller closes the connection, the open transaction is rolled back
LoadCrash ==
    /\ lpc = "loop"
    /\ pending' = << >>
    /\ calls' = Append(calls, [rows |-> rows, ret |-> -1,
                               before |-> Len(table), after |-> Len(table)])
    /\ lpc' = "idle"
    /\ UNCHANGED << rows, pos, inserted, table >>

-----------------------------------------------------------------------------
(***************************************************************************)
(* module_3 main(): plain INSERT, a commit every COMMIT_EVERY inserts.     *)
(* What happens between two commits is one step: the open transaction's    *)
(* rows are seen by nobody else and are lost together.                     *)
(***************************************************************************)

COMMIT_EVERY == 1000

MaxRuns == 3

\* the JSON file: n records with pairwise-distinct notes; every other one has no
\* decision date
M3Record(i) ==
    [notes |-> << "applicant", " ", ToString(i) >>, comments |-> None,
     program |-> << "CS" >>, decision |-> << "Accepted" >>, gpa |-> << "3.8" >>,
     decision_date |-> IF i % 2 = 1 THEN << "01", "/", "15", "/", "26" >> ELSE None,
     llm_program |-> None, llm_university |-> None]

M3Data(n) == [i \in 1..n |-> M3Record(i)]

\* lengths of the JSON list: short ones, and ones around the commit points
M3Lens == { 0, 1, 2, COMMIT_EVERY - 1, COMMIT_EVERY, COMMIT_EVERY + 1 }

\* the index of the last row of the batch that starts after row p
BatchEnd(p, ins, n) ==
    LET q == p + (COMMIT_EVERY - (ins % COMMIT_EVERY)) IN IF q <= n THEN q ELSE n

\* the rows the INSERTs of data[p+1..q] hold
BatchRows(data, p, q) == [i \in 1..(q - p) |-> RowValues(data[p + i])]

NonNullKey(r) == r.comments # None /\ r.date_added # None /\ r.url # None

\* whether some INSERT of the batch violates the UNIQUE constraint, against the
\* committed rows or an earlier row of the batch
BatchViolates(committed, batch) ==
    LET old  == { KeyOf(committed[i]) : i \in 1..Len(committed) }
        idx  == { i \in 1..Len(batch) : NonNullKey(batch[i]) }
        keys == { KeyOf(batch[i]) : i \in idx }
    IN \/ keys \cap old # {}
       \/ Cardinality(keys) < Cardinality(idx)

\* python load_data.py: connect, read the JSON list, enter the loop
M3Start ==
    /\ m3pc \in { "off", "done", "crashed", "raised" }
    /\ Len(m3runs) < MaxRuns
    /\ m3runs' = IF m3pc = "off" THEN m3runs ELSE Append(m3runs, m3pc)
    /\ m3pc' = "loop"
    /\ m3pos' = 0
    /\ m3inserted' = 0
    /\ UNCHANGED << m3data, m3unique, storeVars >>

\* the loop from row m3pos + 1 up to the next conn.commit(): the one inside the
\* loop when inserted reaches a multiple of COMMIT_EVERY, else the final one
M3Batch ==
    /\ m3pc = "loop"
    /\ LET n     == Len(m3data)
           q     == BatchEnd(m3pos, m3inserted, n)
           batch == BatchRows(m3data, m3pos, q)
           full  == (m3inserted + (q - m3pos)) % COMMIT_EVERY = 0 /\ q > m3pos
       IN IF m3unique /\ BatchViolates(table, batch)
          THEN \* psycopg2 raises out of cur.execute: the process ends
               /\ m3pc' = "raised"
               /\ UNCHANGED << m3pos, m3inserted, table >>
          ELSE /\ table' = table \o batch
               /\ m3pos' = q
               /\ m3inserted' = m3inserted + (q - m3pos)
               /\ m3pc' = IF full /\ q < n THEN "loop"
                          ELSE IF full THEN "last" ELSE "done"
    /\ pending' = << >>
    /\ UNCHANGED << m3data, m3unique, m3runs >>

\* the loop is exhausted right after a commit inside it: the final commit, close
M3Finish ==
    /\ m3pc = "last"
    /\ m3pc' = "done"
    /\ UNCHANGED << m3data, m3unique, m3runs, m3pos, m3inserted, storeVars >>

\* the process is interrupted after k more INSERTs of the open batch, k short of
\* the next commit: the server rolls the open transaction back
M3Crash ==
    /\ m3pc \in { "loop", "last" }
    /\ { k \in 0..(BatchEnd(m3pos, m3inserted, Len(m3data)) - m3pos) :
            m3inserted + k < m3inserted + (COMMIT_EVERY - (m3inserted % COMMIT_EVERY)) } # {}
    /\ m3pc' = "crashed"
    /\ pending' = << >>
    /\ UNCHANGED << m3data, m3unique, m3runs, m3pos, m3inserted, table >>

-----------------------------------------------------------------------------
(***************************************************************************)
(* module_2/scrape.py: configuration, check_robots_txt, make_request       *)
(***************************************************************************)

MIN_DELAY == 1
MAX_DELAY == 3
MAX_RETRIES == 5
RETRY_BACKOFF == 2
max_consecutive_empty == 3

\* every error status but 403 retried
RetryStatuses_AndNotFound == { 404, 429, 500, 502, 503, 504 }

\* the statuses make_request retries
RetryStatuses == { 429, 500, 502, 503, 504 }

\* what happens inside check_robots_txt's try block.  rp.read() opens ROBOTS_URL:
\* the document arrives and its rules allow or disallow the URL; or urlopen
\* raises HTTPError, which RobotFileParser.read absorbs (401 and 403 set
\* disallow_all, any other 4xx sets allow_all, a 5xx sets nothing and leaves the
\* parser without a document); or read raises (URLError, a decoding error); or
\* can_fetch raises
RobotsOutcomes ==
    { "can_fetch_true", "can_fetch_false", "read_http_401", "read_http_404",
      "read_http_503", "read_raises", "can_fetch_raises" }

\* the outcomes in which the robots document could not be fetched or parsed
RobotsFailures == { "read_http_401", "read_http_404", "read_http_503", "read_raises" }

\* rp.can_fetch(USER_AGENT, url) after rp.read() ended without raising
can_fetch(o) ==
    CASE o = "read_http_401" -> FALSE      \* disallow_all
      [] o = "read_http_404" -> TRUE       \* allow_all
      [] o = "read_http_503" -> FALSE      \* no document was ever read
      [] OTHER -> (o = "can_fetch_true")

\* check_robots_txt(url): the value returned and the messages printed
check_robots_txt(o) ==
    IF o \in { "read_raises", "can_fetch_raises" }
    THEN [ret |-> TRUE, log |-> { "ROBOTS_ERROR", "ROBOTS_PROCEEDING" }]
    ELSE [ret |-> can_fetch(o), log |-> { "ROBOTS_CAN_FETCH" }]

\* html_content: None, or a page; a page stands for its markup by the number of
\* entries extract_entries_from_page finds in it
HtmlNone == [html |-> FALSE, entries |-> 0]
Html(n) == [html |-> TRUE, entries |-> n]

\* what one urlopen + read gives
OkOutcome(n) == [kind |-> "ok", code |-> 200, entries |-> n]
HttpError(c) == [kind |-> "http", code |-> c, entries |-> 0]
UrlError     == [kind |-> "urlerror", code |-> 0, entries |-> 0]
OtherError   == [kind |-> "exception", code |-> 0, entries |-> 0]
\* the response does not come within timeout=30: getresponse / read raise
\* TimeoutError (socket.timeout), which urlopen does not wrap in URLError
ReadTimeout  == [kind |-> "timeout", code |-> 0, entries |-> 0]

RequestEv(k)  == [ev |-> "request", kind |-> "urlopen", n |-> k]
SleepEv(c, t) == [ev |-> "sleep", kind |-> c, n |-> t]

RECURSIVE Pow(_, _)
Pow(b, e) == IF e = 0 THEN 1 ELSE b * Pow(b, e - 1)

\* a wait growing by MIN_DELAY with each retry
wait_time_Linear(retry_count) == (retry_count + 1) * MIN_DELAY

\* wait_time = (RETRY_BACKOFF ** retry_count) * MIN_DELAY
wait_time(retry_count) == Pow(RETRY_BACKOFF, retry_count) * MIN_DELAY

\* make_request retrying while retry_count <= MAX_RETRIES
RECURSIVE make_request_OneMore(_, _)
make_request_OneMore(env, retry_count) ==
    LET out == Head(env)
        again == make_request_OneMore(Tail(env), retry_count + 1)
        retried == [content  |-> again.content,
                    raised   |-> again.raised,
                    attempts |-> 1 + again.attempts,
                    trace    |-> << RequestEv(retry_count),
                                    SleepEv("backoff", wait_time(retry_count)) >>
                                 \o again.trace,
                    log      |-> { "RETRY" } \cup again.log]
        failed(msg) == [content |-> HtmlNone, raised |-> FALSE, attempts |-> 1,
                        trace |-> << RequestEv(retry_count) >>, log |-> { msg }]
    IN CASE out.kind = "ok" ->
              [content |-> Html(out.entries), raised |-> FALSE, attempts |-> 1,
               trace |-> << RequestEv(retry_count) >>, log |-> {}]
         [] out.kind = "http" ->
              IF out.code \in RetryStatuses
              THEN IF retry_count <= MAX_RETRIES THEN retried
                   ELSE failed("ERROR_MAX_RETRIES")
              ELSE failed("ERROR_HTTP")
         [] out.kind = "urlerror" ->
              IF retry_count <= MAX_RETRIES THEN retried
              ELSE failed("ERROR_MAX_RETRIES")
         [] OTHER -> failed("ERROR_UNEXPECTED")

\* make_request without its last clause, except Exception: any other exception
\* leaves the call
RECURSIVE make_request_NoCatchAll(_, _)
make_request_NoCatchAll(env, retry_count) ==
    LET out == Head(env)
        again == make_request_NoCatchAll(Tail(env), retry_count + 1)
        retried == [content  |-> again.content,
                    raised   |-> again.raised,
                    attempts |-> 1 + again.attempts,
                    trace    |-> << RequestEv(retry_count),
                                    SleepEv("backoff", wait_time(retry_count)) >>
                                 \o again.trace,
                    log      |-> { "RETRY" } \cup again.log]
        failed(msg) == [content |-> HtmlNone, raised |-> FALSE, attempts |-> 1,
                        trace |-> << RequestEv(retry_count) >>, log |-> { msg }]
    IN CASE out.kind = "ok" ->
              [content |-> Html(out.entries), raised |-> FALSE, attempts |-> 1,
               trace |-> << RequestEv(retry_count) >>, log |-> {}]
         [] out.kind = "http" ->
              IF out.code \in RetryStatuses
              THEN IF retry_count < MAX_RETRIES THEN retried
                   ELSE failed("ERROR_MAX_RETRIES")
              ELSE failed("ERROR_HTTP")
         [] out.kind = "urlerror" ->
              IF retry_count < MAX_RETRIES THEN retried
              ELSE failed("ERROR_MAX_RETRIES")
         [] OTHER -> [content |-> HtmlNone, raised |-> TRUE, attempts |-> 1,
                      trace |-> << RequestEv(retry_count) >>, log |-> {}]

\* make_request(url, retry_count), env being what the coming calls of urlopen give:
\* the value returned, whether an exception leaves the call, the urlopen calls
\* made, the requests and sleeps in order,
\* the messages printed
RECURSIVE make_request(_, _)
make_request(env, retry_count) ==
    LET out == Head(env)
        again == make_request(Tail(env), retry_count + 1)
        retried == [content  |-> again.content,
                    raised   |-> again.raised,
                    attempts |-> 1 + again.attempts,
                    trace    |-> << RequestEv(retry_count),
                                    SleepEv("backoff", wait_time(retry_count)) >>
                                 \o again.trace,
                    log      |-> { "RETRY" } \cup again.log]
        failed(msg) == [content |-> HtmlNone, raised |-> FALSE, attempts |-> 1,
                        trace |-> << RequestEv(retry_count) >>, log |-> { msg }]
    IN CASE out.kind = "ok" ->
              [content |-> Html(out.entries), raised |-> FALSE, attempts |-> 1,
               trace |-> << RequestEv(retry_count) >>, log |-> {}]
         [] out.kind = "http" ->
              IF out.code \in RetryStatuses
              THEN IF retry_count < MAX_RETRIES THEN retried
                   ELSE failed("ERROR_MAX_RETRIES")
              ELSE failed("ERROR_HTTP")
         [] out.kind = "urlerror" ->
              IF retry_count < MAX_RETRIES THEN retried
              ELSE failed("ERROR_MAX_RETRIES")
         [] OTHER -> failed("ERROR_UNEXPECTED")

-----------------------------------------------------------------------------
(***************************************************************************)
(* The site scrape_data crawls                                             *)
(***************************************************************************)

MaxPage == 3        \* pages 1..MaxPage may hold entries; later pages hold none
BigPage == 25       \* entries of a full page
BigTarget == 60     \* a target that takes several full pages

PageSizes == { 0, 1, 2, BigPage }
Targets == { 1, 3, BigTarget }

\* what urlopen may give for page p, attempt after attempt: k times the same
\* retried failure, then an answer or a failure that is not retried
Terminals(p) ==
    { OkOutcome(n) : n \in IF p <= MaxPage THEN PageSizes ELSE { 0 } }
        \cup { HttpError(404), ReadTimeout }

\* the outcomes after the ones make_request is expected to consume
EnvLen == MAX_RETRIES + 2

CrawlEnvs(p) ==
    { [i \in 1..EnvLen |-> IF i <= k THEN f ELSE IF i = k + 1 THEN t ELSE OtherError] :
        k \in 0..MAX_RETRIES, f \in { HttpError(503) }, t \in Terminals(p) }
      \cup { [i \in 1..EnvLen |-> IF i <= MAX_RETRIES + 1 THEN f ELSE OtherError] :
                f \in { HttpError(503), UrlError } }

\* the entries extract_entries_from_page returns for a page
extract_entries_from_page(content) == [i \in 1..content.entries |-> [item |-> i]]

\* entry["source_page"] = current_page
Stamp(entry, page) == [item |-> entry.item, source_page |-> page]

-----------------------------------------------------------------------------
(***************************************************************************)
(* scrape_data()                                                           *)
(***************************************************************************)

Returned(entries, pages, reached) ==
    [entries |-> entries, pages |-> pages, target_reached |-> reached]

\* the robots check with its answer ignored: the loop is entered either way
CheckRobots_NoAbort(o) ==
    /\ cpc = "start"
    /\ LET r == check_robots_txt(o) IN
          /\ robots' = IF r.ret THEN "allowed" ELSE "disallowed"
          /\ robots_outcome' = o
          /\ cpc' = "check"
          /\ logged' = logged \cup r.log
          /\ result' = result
    /\ all_entries' = << >>
    /\ current_page' = 1
    /\ pages_successfully_scraped' = 0
    /\ consecutive_empty' = 0
    /\ target_reached' = FALSE
    /\ UNCHANGED << TARGET_ENTRIES, html_content, events, page_log, requested >>

\* lines 291-304: the robots check, then the locals
CheckRobots(o) ==
    /\ cpc = "start"
    /\ LET r == check_robots_txt(o) IN
          /\ robots' = IF r.ret THEN "allowed" ELSE "disallowed"
          /\ robots_outcome' = o
          /\ IF r.ret
             THEN /\ cpc' = "check"
                  /\ logged' = logged \cup r.log
                  /\ result' = result
             ELSE /\ cpc' = "done"
                  /\ logged' = logged \cup r.log \cup { "ABORT" }
                  /\ result' = Returned(<< >>, 0, FALSE)
    /\ all_entries' = << >>
    /\ current_page' = 1
    /\ pages_successfully_scraped' = 0
    /\ consecutive_empty' = 0
    /\ target_reached' = FALSE
    /\ UNCHANGED << TARGET_ENTRIES, html_content, events, page_log, requested >>

\* CHECK #1 breaking out of the loop without setting target_reached
TargetReached_NoFlag ==
    /\ cpc = "check"
    /\ Len(all_entries) >= TARGET_ENTRIES
    /\ target_reached' = target_reached
    /\ cpc' = "done"
    /\ result' = Returned(all_entries, pages_successfully_scraped, target_reached)
    /\ logged' = logged \cup { "TARGET_REACHED" }
    /\ UNCHANGED << TARGET_ENTRIES, robots_outcome, robots, all_entries, current_page,
                    pages_successfully_scraped, consecutive_empty, html_content,
                    events, page_log, requested >>

\* lines 318-321: CHECK #1 finds the target met
TargetReached ==
    /\ cpc = "check"
    /\ Len(all_entries) >= TARGET_ENTRIES
    /\ target_reached' = TRUE
    /\ cpc' = "done"
    /\ result' = Returned(all_entries, pages_successfully_scraped, TRUE)
    /\ logged' = logged \cup { "TARGET_REACHED" }
    /\ UNCHANGED << TARGET_ENTRIES, robots_outcome, robots, all_entries, current_page,
                    pages_successfully_scraped, consecutive_empty, html_content,
                    events, page_log, requested >>

\* the loop without CHECK #1's break: a page is started whatever the count
StartPage_Unchecked(delay) ==
    /\ cpc = "check"
    /\ events' = << SleepEv("jitter", delay) >>
    /\ cpc' = "fetch"
    /\ UNCHANGED << TARGET_ENTRIES, robots_outcome, robots, all_entries, current_page,
                    pages_successfully_scraped, consecutive_empty, target_reached,
                    html_content, result, page_log, requested, logged >>

\* the page is started without time.sleep(delay)
StartPage_NoSleep(delay) ==
    /\ cpc = "check"
    /\ Len(all_entries) < TARGET_ENTRIES
    /\ events' = << >>
    /\ cpc' = "fetch"
    /\ UNCHANGED << TARGET_ENTRIES, robots_outcome, robots, all_entries, current_page,
                    pages_successfully_scraped, consecutive_empty, target_reached,
                    html_content, result, page_log, requested, logged >>

\* lines 318-335: the target is not met; the page URL, the jittered sleep
StartPage(delay) ==
    /\ cpc = "check"
    /\ Len(all_entries) < TARGET_ENTRIES
    /\ events' = << SleepEv("jitter", delay) >>
    /\ cpc' = "fetch"
    /\ UNCHANGED << TARGET_ENTRIES, robots_outcome, robots, all_entries, current_page,
                    pages_successfully_scraped, consecutive_empty, target_reached,
                    html_content, result, page_log, requested, logged >>

\* line 338: html_content = make_request(page_url)
Fetch(env) ==
    /\ cpc = "fetch"
    /\ LET r == make_request(env, 0) IN
          /\ html_content' = r.content
          /\ events' = events \o r.trace
    /\ requested' = Append(requested, current_page)
    /\ cpc' = "fetched"
    /\ UNCHANGED << TARGET_ENTRIES, robots_outcome, robots, all_entries, current_page,
                    pages_successfully_scraped, consecutive_empty, target_reached,
                    result, page_log, logged >>

\* lines 343-350: the fetch failed
FetchFailed ==
    /\ cpc = "fetched"
    /\ html_content = HtmlNone
    /\ consecutive_empty' = consecutive_empty + 1
    /\ page_log' = Append(page_log, [fetched |-> FALSE, entries |-> 0])
    /\ IF consecutive_empty + 1 >= max_consecutive_empty
       THEN /\ cpc' = "done"
            /\ result' = Returned(all_entries, pages_successfully_scraped, target_reached)
            /\ logged' = logged \cup { "ERROR_FETCH", "STOP_FAILURES" }
            /\ current_page' = current_page
       ELSE /\ cpc' = "check"
            /\ result' = result
            /\ logged' = logged \cup { "ERROR_FETCH" }
            /\ current_page' = current_page + 1
    /\ events' = << >>
    /\ UNCHANGED << TARGET_ENTRIES, robots_outcome, robots, all_entries, pages_successfully_scraped,
                    target_reached, html_content, requested >>

\* an empty page passed over without raising consecutive_empty
EmptyPage_NoCount ==
    /\ cpc = "fetched"
    /\ html_content # HtmlNone
    /\ extract_entries_from_page(html_content) = << >>
    /\ consecutive_empty' = consecutive_empty
    /\ page_log' = Append(page_log, [fetched |-> TRUE, entries |-> 0])
    /\ cpc' = "check"
    /\ result' = result
    /\ logged' = logged \cup { "WARNING_EMPTY" }
    /\ current_page' = current_page + 1
    /\ events' = << >>
    /\ UNCHANGED << TARGET_ENTRIES, robots_outcome, robots, all_entries, pages_successfully_scraped,
                    target_reached, html_content, requested >>

\* lines 353-366: the page was fetched and holds no entry
EmptyPage ==
    /\ cpc = "fetched"
    /\ html_content # HtmlNone
    /\ extract_entries_from_page(html_content) = << >>
    /\ consecutive_empty' = consecutive_empty + 1
    /\ page_log' = Append(page_log, [fetched |-> TRUE, entries |-> 0])
    /\ IF consecutive_empty + 1 >= max_consecutive_empty
       THEN /\ cpc' = "done"
            /\ result' = Returned(all_entries, pages_successfully_scraped, target_reached)
            /\ logged' = logged \cup { "WARNING_EMPTY", "STOP_EMPTY" }
            /\ current_page' = current_page
       ELSE /\ cpc' = "check"
            /\ result' = result
            /\ logged' = logged \cup { "WARNING_EMPTY" }
            /\ current_page' = current_page + 1
    /\ events' = << >>
    /\ UNCHANGED << TARGET_ENTRIES, robots_outcome, robots, all_entries, pages_successfully_scraped,
                    target_reached, html_content, requested >>

\* the page holds entries, but consecutive_empty is not reset
AppendPage_NoReset ==
    /\ cpc = "fetched"
    /\ html_content # HtmlNone
    /\ LET page_entries == extract_entries_from_page(html_content) IN
          /\ page_entries # << >>
          /\ all_entries' = all_entries \o
                [i \in 1..Len(page_entries) |-> Stamp(page_entries[i], current_page)]
          /\ page_log' = Append(page_log, [fetched |-> TRUE, entries |-> Len(page_entries)])
    /\ consecutive_empty' = consecutive_empty
    /\ pages_successfully_scraped' = pages_successfully_scraped + 1
    /\ current_page' = current_page + 1
    /\ cpc' = "check"
    /\ events' = << >>
    /\ UNCHANGED << TARGET_ENTRIES, robots_outcome, robots, target_reached, html_content, result,
                    requested, logged >>

\* the page holds entries, stamped with the count of pages that gave entries
AppendPage_StampCount ==
    /\ cpc = "fetched"
    /\ html_content # HtmlNone
    /\ LET page_entries == extract_entries_from_page(html_content) IN
          /\ page_entries # << >>
          /\ all_entries' = all_entries \o
                [i \in 1..Len(page_entries) |->
                    Stamp(page_entries[i], pages_successfully_scraped + 1)]
          /\ page_log' = Append(page_log, [fetched |-> TRUE, entries |-> Len(page_entries)])
    /\ consecutive_empty' = 0
    /\ pages_successfully_scraped' = pages_successfully_scraped + 1
    /\ current_page' = current_page + 1
    /\ cpc' = "check"
    /\ events' = << >>
    /\ UNCHANGED << TARGET_ENTRIES, robots_outcome, robots, target_reached, html_content, result,
                    requested, logged >>

\* lines 353-385: the page holds entries: reset, stamp, extend, count, next page
AppendPage ==
    /\ cpc = "fetched"
    /\ html_content # HtmlNone
    /\ LET page_entries == extract_entries_from_page(html_content) IN
          /\ page_entries # << >>
          /\ all_entries' = all_entries \o
                [i \in 1..Len(page_entries) |-> Stamp(page_entries[i], current_page)]
          /\ page_log' = Append(page_log, [fetched |-> TRUE, entries |-> Len(page_entries)])
    /\ consecutive_empty' = 0
    /\ pages_successfully_scraped' = pages_successfully_scraped + 1
    /\ current_page' = current_page + 1
    /\ cpc' = "check"
    /\ events' = << >>
    /\ UNCHANGED << TARGET_ENTRIES, robots_outcome, robots, target_reached, html_content, result,
                    requested, logged >>

-----------------------------------------------------------------------------
(***************************************************************************)
(* make_request on its own: every run of outcomes urlopen can give         *)
(***************************************************************************)

\* one outcome for attempt i (an answer carries the number of the attempt)
FetchOutcomes(i) ==
    { OkOutcome(i), UrlError, ReadTimeout, OtherError }
        \cup { HttpError(c) : c \in RetryStatuses \cup { 403, 404 } }

\* outcomes after which urlopen is expected to be called again
Transient == { UrlError } \cup { HttpError(c) : c \in { 429, 500, 502, 503, 504 } }

\* urlopen gives outcome o to the next attempt: the run of outcomes grows while
\* every outcome so far is a transient one and attempts are left
FetchOutcome(o) ==
    /\ fpc = "env"
    /\ Len(fenv) <= MAX_RETRIES
    /\ \A i \in 1..Len(fenv) : fenv[i] \in Transient
    /\ fenv' = Append(fenv, o)
    /\ UNCHANGED << fpc, fres >>

\* the outcomes of the attempts after the run (answers), should they be asked for
PadEnv(env) ==
    env \o [i \in 1..(EnvLen - Len(env)) |-> OkOutcome(Len(env) + i)]

\* html = make_request(url), urlopen giving the run of outcomes drawn
FetchCall ==
    /\ fpc = "env"
    /\ fenv # << >>
    /\ fenv[Len(fenv)] \notin Transient \/ Len(fenv) = MAX_RETRIES + 1
    /\ fres' = make_request(PadEnv(fenv), 0)
    /\ fpc' = "returned"
    /\ UNCHANGED fenv

-----------------------------------------------------------------------------
(***************************************************************************)
(* Specifications                                                          *)
(***************************************************************************)

StoreInit == table = << >> /\ pending = << >>

LoadOff ==
    /\ lpc = "off" /\ rows = << >> /\ pos = 0 /\ inserted = 0 /\ calls = << >>

M3Off ==
    /\ m3pc = "none" /\ m3data = << >> /\ m3pos = 0 /\ m3inserted = 0
    /\ m3unique = FALSE /\ m3runs = << >>

CrawlOff ==
    /\ cpc = "off" /\ TARGET_ENTRIES = 0 /\ robots_outcome = "unset" /\ robots = "unset"
    /\ all_entries = << >>
    /\ current_page = 1 /\ pages_successfully_scraped = 0 /\ consecutive_empty = 0
    /\ target_reached = FALSE /\ html_content = HtmlNone
    /\ result = Returned(<< >>, 0, FALSE)
    /\ events = << >> /\ page_log = << >> /\ requested = << >> /\ logged = {}

FetchOff ==
    /\ fpc = "off" /\ fenv = << >>
    /\ fres = [content |-> HtmlNone, raised |-> FALSE, attempts |-> 0, trace |-> << >>,
               log |-> {}]

ExtractOff ==
    /\ xpc = "off" /\ soup = << >> /\ xrows = << >> /\ xpos = 0 /\ xentries = << >>

CleanOff ==
    /\ kpc = "off" /\ raw_entries = << >> /\ kpos = 0 /\ cleaned_entries = << >>
    /\ clean_log = << >>

AppOff ==
    /\ _busy = FALSE /\ DATABASE_URL = FALSE /\ req = << >>
    /\ scraper_calls = 0 /\ loader_calls = 0 /\ connections = 0 /\ open_conns = 0

NotesOff ==
    /\ npc = "off" /\ ntext = << >> /\ nparts = << >>
    /\ nuniversity = None /\ nprogram = None

StatusOff == scrape_running = FALSE /\ proc = "none" /\ flashes = << >>

MoreOff == NotesOff /\ StatusOff

ExtOff == ExtractOff /\ CleanOff /\ AppOff /\ MoreOff

\* ---- scrape_data ----
Init ==
    /\ StoreInit /\ LoadOff /\ M3Off /\ FetchOff /\ ExtOff
    /\ cpc = "start" /\ TARGET_ENTRIES \in Targets
    /\ robots_outcome = "unset" /\ robots = "unset"
    /\ all_entries = << >> /\ current_page = 1 /\ pages_successfully_scraped = 0
    /\ consecutive_empty = 0 /\ target_reached = FALSE /\ html_content = HtmlNone
    /\ result = Returned(<< >>, 0, FALSE)
    /\ events = << >> /\ page_log = << >> /\ requested = << >> /\ logged = {}

Next ==
    \/ \E o \in RobotsOutcomes : CheckRobots(o) /\ UNCHANGED << storeVars, loadVars, m3Vars, fetchVars, extVars >>
    \/ TargetReached /\ UNCHANGED << storeVars, loadVars, m3Vars, fetchVars, extVars >>
    \/ \E d \in MIN_DELAY..MAX_DELAY : StartPage(d) /\ UNCHANGED << storeVars, loadVars, m3Vars, fetchVars, extVars >>
    \/ \E env \in CrawlEnvs(current_page) : Fetch(env) /\ UNCHANGED << storeVars, loadVars, m3Vars, fetchVars, extVars >>
    \/ FetchFailed /\ UNCHANGED << storeVars, loadVars, m3Vars, fetchVars, extVars >>
    \/ EmptyPage /\ UNCHANGED << storeVars, loadVars, m3Vars, fetchVars, extVars >>
    \/ AppendPage /\ UNCHANGED << storeVars, loadVars, m3Vars, fetchVars, extVars >>

Spec == Init /\ [][Next]_vars

\* ---- make_request ----
InitFetch ==
    /\ StoreInit /\ LoadOff /\ M3Off /\ CrawlOff /\ ExtOff
    /\ fpc = "env" /\ fenv = << >>
    /\ fres = [content |-> HtmlNone, raised |-> FALSE, attempts |-> 0, trace |-> << >>,
               log |-> {}]

NextFetch ==
    \/ \E o \in FetchOutcomes(Len(fenv) + 1) :
          FetchOutcome(o) /\ UNCHANGED << storeVars, loadVars, m3Vars, crawlVars, extVars >>
    \/ FetchCall /\ UNCHANGED << storeVars, loadVars, m3Vars, crawlVars, extVars >>

SpecFetch == InitFetch /\ [][NextFetch]_vars

\* ---- module_4 load_rows ----
InitLoad ==
    /\ StoreInit /\ M3Off /\ CrawlOff /\ FetchOff /\ ExtOff
    /\ lpc = "idle" /\ rows = << >> /\ pos = 0 /\ inserted = 0 /\ calls = << >>

NextLoad ==
    \/ \E rs \in RowLists : LoadStart(rs) /\ UNCHANGED << m3Vars, crawlVars, fetchVars, extVars >>
    \/ LoadRow /\ UNCHANGED << m3Vars, crawlVars, fetchVars, extVars >>
    \/ LoadCommit /\ UNCHANGED << m3Vars, crawlVars, fetchVars, extVars >>
    \/ LoadCrash /\ UNCHANGED << m3Vars, crawlVars, fetchVars, extVars >>

SpecLoad == InitLoad /\ [][NextLoad]_vars

\* ---- module_3 main ----
InitM3 ==
    /\ StoreInit /\ LoadOff /\ CrawlOff /\ FetchOff /\ ExtOff
    /\ m3pc = "off" /\ m3data \in { M3Data(n) : n \in M3Lens } /\ m3pos = 0
    /\ m3inserted = 0 /\ m3unique \in BOOLEAN /\ m3runs = << >>

NextM3 ==
    \/ M3Start /\ UNCHANGED << loadVars, crawlVars, fetchVars, extVars >>
    \/ M3Batch /\ UNCHANGED << loadVars, crawlVars, fetchVars, extVars >>
    \/ M3Finish /\ UNCHANGED << loadVars, crawlVars, fetchVars, extVars >>
    \/ M3Crash /\ UNCHANGED << loadVars, crawlVars, fetchVars, extVars >>

SpecM3 == InitM3 /\ [][NextM3]_vars

-----------------------------------------------------------------------------
(***************************************************************************)
(* Properties of the loader                                                *)
(***************************************************************************)

KeysOfRows(rs) == { KeyOf(RowValues(rs[i])) : i \in 1..Len(rs) }

\* the records of the list have pairwise-distinct (comments, date_added, url)
DistinctKeys(rs) ==
    \A i, j \in 1..Len(rs) : i # j => KeyOf(RowValues(rs[i])) # KeyOf(RowValues(rs[j]))

\* no two rows of t carry the same (comments, date_added, url)
NoDuplicateKey(t) == \A i, j \in 1..Len(t) : i # j => KeyOf(t[i]) # KeyOf(t[j])

\* C1. Loader idempotence: load_rows called twice with the same list of N records
\* of pairwise-distinct keys, on a table that was empty, returns N and then 0, and
\* the table then holds N rows -- whether or not the decision dates parse.
C1_LoadTwice ==
    \A i \in 1..(Len(calls) - 1) :
        ( /\ calls[i].before = 0
          /\ calls[i + 1].rows = calls[i].rows
          /\ calls[i].ret # -1 /\ calls[i + 1].ret # -1
          /\ DistinctKeys(calls[i].rows) )
        => /\ calls[i].ret = Len(calls[i].rows)
           /\ calls[i + 1].ret = 0
           /\ calls[i + 1].after = Len(calls[i].rows)

\* C2. Natural-key uniqueness: after any sequence of load_rows calls the table
\* holds at most one row for each (comments, date_added, url), an absent
\* date_added counting as a value like any other.
C2_UniqueKey == NoDuplicateKey(table)

\* a step of the for loop of load_rows that handles a record whose key is the key
\* of a row already there
SkipStep ==
    /\ lpc = "loop" /\ pos < Len(rows) /\ pos' = pos + 1
    /\ \E i \in 1..Len(table \o pending) :
          KeyOf((table \o pending)[i]) = KeyOf(RowValues(rows[pos + 1]))

\* C3. Skip on conflict: a record whose key equals the key of an existing row
\* changes no row, adds no row and adds 0 to the count; the count returned is the
\* growth of the table.
C3_SkipOnConflict ==
    /\ [][SkipStep => /\ table' = table /\ pending' = pending
                      /\ inserted' = inserted]_vars
    /\ [](\A i \in 1..Len(calls) :
            calls[i].ret # -1 => calls[i].ret = calls[i].after - calls[i].before)

\* C4. Crash and retry: a load interrupted after any number of inserts, then run
\* again from the start on the same input, completes and leaves exactly one row
\* for each distinct natural key.
C4_CrashRetry ==
    m3runs = << "crashed" >> =>
        /\ m3pc # "raised"
        /\ m3pc = "done" =>
              /\ NoDuplicateKey(table)
              /\ { KeyOf(table[i]) : i \in 1..Len(table) } = KeysOfRows(m3data)

\* non-empty: neither missing nor the empty string
NonEmpty(v) == v # None /\ v # << >>

\* C23. The loader prefers structured fields: for every record load_rows stores
\* program = the record's program when non-empty, else the program segment of
\* the notes; status = the record's decision when non-empty, else the status
\* keyword of the notes; comments = notes when non-empty, else the comments
\* field.  A note-derived value is never stored when the structured field is
\* non-empty.
C23_StructuredFirst ==
    [][lpc = "loop" /\ Len(pending') = Len(pending) + 1 =>
          LET row == rows[pos + 1]
              stored == pending'[Len(pending')]
              notes == IF NonEmpty(row.notes) THEN row.notes
                       ELSE IF NonEmpty(row.comments) THEN row.comments ELSE << >>
          IN /\ stored.comments = notes
             /\ NonEmpty(row.program) => stored.program = row.program
             /\ ~ NonEmpty(row.program) =>
                    stored.program = extract_program_from_notes(notes)
             /\ NonEmpty(row.decision) => stored.status = row.decision
             /\ ~ NonEmpty(row.decision) =>
                    stored.status = extract_status_from_notes(notes)]_vars

C23_Witness ==
    /\ lpc = "idle" /\ Len(table) = 2
    /\ table[1].program = << "EE" >> /\ table[1].status = << "Rejected" >>
    /\ extract_program_from_notes(table[1].comments) = << "CS" >>
    /\ extract_status_from_notes(table[1].comments) = << "Accepted" >>
    /\ table[2].program = << "Math" >> /\ table[2].status = << "Waitlisted" >>
    /\ table[2].comments = NotesJHU

-----------------------------------------------------------------------------
(***************************************************************************)
(* Properties of the crawl                                                 *)
(***************************************************************************)

\* the entries of pages 1..n of the log, each stamped with its page
RECURSIVE Collected(_, _)
Collected(log, n) ==
    IF n = 0 THEN << >>
    ELSE Collected(log, n - 1) \o
            [i \in 1..log[n].entries |->
                Stamp(extract_entries_from_page(Html(log[n].entries))[i], n)]

\* the number of pages at the end of the log that gave no entry
RECURSIVE Trailing(_)
Trailing(log) ==
    IF log = << >> \/ log[Len(log)].entries > 0 THEN 0
    ELSE 1 + Trailing(SubSeq(log, 1, Len(log) - 1))

\* every page handled so far was fetched and held n entries
Uniform(n) ==
    /\ page_log # << >>
    /\ \A i \in 1..Len(page_log) : page_log[i].fetched /\ page_log[i].entries = n

Ceil(a, b) == (a + b - 1) \div b

UpTo(n) == [i \in 1..n |-> i]

\* C5. The target check comes before the fetch only: no page is started with the
\* count at or over TARGET_ENTRIES; a page started is appended whole or not at all;
\* the crawl then stops with target_reached = True.  Pages of 25 and a target of
\* 60: pages 1, 2, 3 are requested, 75 records are returned.
C5_TargetCheck ==
    /\ [](cpc \in { "fetch", "fetched" } => Len(all_entries) < TARGET_ENTRIES)
    /\ [](all_entries = Collected(page_log, Len(page_log)))
    /\ [](cpc = "done" /\ Len(all_entries) >= TARGET_ENTRIES =>
              /\ target_reached
              /\ result = Returned(all_entries, pages_successfully_scraped, TRUE))
    /\ [](\A n \in PageSizes \ { 0 } :
              cpc = "done" /\ robots = "allowed" /\ Uniform(n) =>
                  /\ result.target_reached
                  /\ requested = UpTo(Ceil(TARGET_ENTRIES, n))
                  /\ Len(result.entries) = n * Ceil(TARGET_ENTRIES, n))
    /\ [](cpc = "done" /\ TARGET_ENTRIES = 60 /\ Uniform(25) =>
              requested = << 1, 2, 3 >> /\ Len(result.entries) = 75)
    /\ [][cpc = "check" /\ Len(all_entries) >= TARGET_ENTRIES =>
              /\ cpc' = "done" /\ target_reached'
              /\ requested' = requested /\ all_entries' = all_entries]_vars

C5_Witness ==
    /\ cpc = "done" /\ TARGET_ENTRIES = BigTarget /\ Uniform(BigPage)
    /\ requested = << 1, 2, 3 >>
    /\ Len(result.entries) = 3 * BigPage
    /\ result.target_reached

\* C6. The crawl stops at the first empty page: pages 1..k gave entries, page
\* k+1 was fetched and gave none, the target not being met; then the crawl is over,
\* no page after k+1 was requested, and it returns target_reached = False with k
\* pages.
C6_StopAtFirstEmpty ==
    \A k \in 1..(Len(page_log) - 1) :
        ( /\ \A i \in 1..k : page_log[i].entries > 0
          /\ page_log[k + 1].fetched /\ page_log[k + 1].entries = 0 )
        => /\ cpc = "done"
           /\ requested = UpTo(k + 1)
           /\ result = Returned(all_entries, k, FALSE)

C8_DisallowAborts ==
    robots = "disallowed" =>
        /\ cpc = "done"
        /\ requested = << >> /\ events = << >> /\ page_log = << >>
        /\ result = Returned(<< >>, 0, FALSE)
        /\ "ABORT" \in logged

C8_Witness ==
    /\ robots = "disallowed" /\ robots_outcome = "can_fetch_false"
    /\ cpc = "done" /\ result.entries = << >>

\* C9. The politeness gate fails open: whenever the robots document cannot be
\* fetched or parsed, check_robots_txt logs the condition and returns True, and
\* the crawl goes on.
C9_FailsOpen ==
    robots_outcome \in RobotsFailures \cup { "can_fetch_raises" } =>
        /\ robots = "allowed"
        /\ "ROBOTS_ERROR" \in logged
        /\ "ABORT" \notin logged

\* the n-th request of a trace
IsRequest(e) == e.ev = "request"
Requests(trace) == { i \in 1..Len(trace) : IsRequest(trace[i]) }

\* C10. Bounded retry, success passed through: whatever the run of outcomes,
\* make_request makes at most MAX_RETRIES + 1 attempts, stops at the first
\* success and returns its content; 503, 503, success gives the content after 3
\* attempts.
C10_BoundedRetry ==
    fpc = "returned" =>
        /\ fres.attempts \in 1..(MAX_RETRIES + 1)
        /\ Cardinality(Requests(fres.trace)) = fres.attempts
        /\ fres.attempts = Len(fenv)
        /\ fenv[Len(fenv)].kind = "ok" => fres.content = Html(Len(fenv))
        /\ fenv[Len(fenv)].kind # "ok" => fres.content = HtmlNone
        /\ \A j \in 1..(fres.attempts - 1) : fenv[j].kind # "ok"
        /\ fenv = << HttpError(503), HttpError(503), OkOutcome(3) >>
              => fres.content = Html(3) /\ fres.attempts = 3

C10_Witness ==
    /\ fpc = "returned"
    /\ fenv = << HttpError(503), HttpError(503), OkOutcome(3) >>
    /\ fres.content = Html(3) /\ fres.attempts = 3

\* the source_page values of a list of records
SourcePages(entries) == { entries[i].source_page : i \in 1..Len(entries) }

\* C24. Source-page stamping and the page count: at return from scrape_data
\* every record carries the number of the page whose fetch produced it, the
\* records are in non-decreasing source_page order, and the returned page count
\* is the number of distinct source_page values; pages that failed or gave no
\* entry are not counted.
C24_SourcePage ==
    cpc = "done" /\ robots = "allowed" =>
        /\ \A i \in 1..Len(result.entries) :
              LET e == result.entries[i] IN
                 /\ e.source_page \in 1..Len(page_log)
                 /\ requested[e.source_page] = e.source_page
                 /\ page_log[e.source_page].fetched
                 /\ e.item \in 1..page_log[e.source_page].entries
                 /\ i = Len(Collected(page_log, e.source_page - 1)) + e.item
        /\ \A i \in 1..(Len(result.entries) - 1) :
              result.entries[i].source_page <= result.entries[i + 1].source_page
        /\ result.pages = Cardinality(SourcePages(result.entries))
        /\ SourcePages(result.entries) =
              { p \in 1..Len(page_log) : page_log[p].fetched /\ page_log[p].entries > 0 }

C24_Witness ==
    /\ cpc = "done" /\ robots = "allowed" /\ TARGET_ENTRIES = 3
    /\ Len(page_log) = 3
    /\ page_log[1].entries = 1
    /\ ~ page_log[2].fetched
    /\ page_log[3].entries = 2
    /\ result.pages = 2
    /\ [i \in 1..3 |-> result.entries[i].source_page] = << 1, 3, 3 >>

\* C28. target_reached is exact: when robots permits the crawl, scrape_data
\* returns target_reached = True if and only if the returned list holds at
\* least TARGET_ENTRIES records; a stop caused by failures or empty pages returns
\* target_reached = False with fewer than TARGET_ENTRIES records.
C28_TargetReachedExact ==
    cpc = "done" /\ robots = "allowed" =>
        /\ result.target_reached <=> Len(result.entries) >= TARGET_ENTRIES
        /\ result.target_reached = target_reached
        /\ result.entries = all_entries
        /\ (logged \cap { "STOP_FAILURES", "STOP_EMPTY" }) # {} =>
              ~ result.target_reached /\ Len(result.entries) < TARGET_ENTRIES

C28_Witness ==
    /\ cpc = "done" /\ robots = "allowed" /\ TARGET_ENTRIES = 3
    /\ Len(page_log) = 3
    /\ page_log[1].entries = 2 /\ ~ page_log[2].fetched /\ page_log[3].entries = 2
    /\ result.target_reached /\ Len(result.entries) = 4

-----------------------------------------------------------------------------
(***************************************************************************)
(* Properties of make_request                                              *)
(***************************************************************************)

\* the outcomes urlopen gave to the attempts make_request made
Attempted == SubSeq(PadEnv(fenv), 1, fres.attempts)

\* an attempt that ends with a transport-level error: no connection, or a timeout
TransportErrors == { UrlError, ReadTimeout }

\* C11. Transient failures are retried: an attempt that ends with status 429, 500,
\* 502, 503 or 504, or with a transport-level error (connection failure, timeout),
\* is followed by another attempt unless MAX_RETRIES retries were already made.
C11_TransientRetried ==
    fpc = "returned" =>
        \A j \in 1..fres.attempts :
            ( /\ Attempted[j] \in Transient \cup TransportErrors
              /\ j <= MAX_RETRIES )
            => fres.attempts > j


\* the sleeps of a trace
Sleeps(trace) == { i \in 1..Len(trace) : trace[i].ev = "sleep" }

\* an HTTP error status that is not one of the retried ones
IsPermanent(o) == o.kind = "http" /\ o.code \notin { 429, 500, 502, 503, 504 }

\* C12. Permanent HTTP errors are not retried: an attempt that ends with an HTTP
\* error status other than 429/500/502/503/504 is the last one -- make_request
\* returns None at once, with no backoff sleep and no further request, however
\* many retries remain.
C12_PermanentNotRetried ==
    fpc = "returned" =>
        \A j \in 1..fres.attempts :
            IsPermanent(Attempted[j]) =>
                /\ fres.attempts = j
                /\ fres.content = HtmlNone
                /\ Cardinality(Requests(fres.trace)) = j
                /\ Cardinality(Sleeps(fres.trace)) = j - 1
                /\ fres.trace[Len(fres.trace)] = RequestEv(j - 1)
                /\ "ERROR_HTTP" \in fres.log

C12_Witness ==
    /\ fpc = "returned"
    /\ fenv = << HttpError(503), HttpError(404) >>
    /\ fres.attempts = 2 /\ fres.content = HtmlNone
    /\ fres.trace = << RequestEv(0), SleepEv("backoff", 1), RequestEv(1) >>


\* C13. The fetcher never raises: whatever the outcomes, make_request returns the
\* content of the response or None and no exception leaves it; with the retries
\* used up it returns None.
C13_NeverRaises ==
    fpc = "returned" =>
        /\ ~ fres.raised
        /\ \/ fres.content = HtmlNone
           \/ /\ Attempted[fres.attempts].kind = "ok"
              /\ fres.content = Html(Attempted[fres.attempts].entries)
        /\ Attempted[fres.attempts].kind # "ok" => fres.content = HtmlNone
        /\ ( /\ Len(fenv) = MAX_RETRIES + 1
             /\ \A j \in 1..Len(fenv) : fenv[j] \in Transient )
           => /\ fres.content = HtmlNone
              /\ fres.attempts = MAX_RETRIES + 1
              /\ "ERROR_MAX_RETRIES" \in fres.log

C13_Witness ==
    /\ fpc = "returned"
    /\ Len(fenv) = MAX_RETRIES + 1
    /\ \A j \in 1..MAX_RETRIES : fenv[j] = HttpError(503)
    /\ fenv[MAX_RETRIES + 1] = UrlError
    /\ fres.content = HtmlNone /\ ~ fres.raised

-----------------------------------------------------------------------------
(***************************************************************************)
(* Properties of the delays                                                *)
(***************************************************************************)

\* a sleep of random.uniform(MIN_DELAY, MAX_DELAY)
IsJitter(e) == e.ev = "sleep" /\ e.kind = "jitter" /\ e.n \in MIN_DELAY..MAX_DELAY

-----------------------------------------------------------------------------
(***************************************************************************)
(* module_2/scrape.py: parse_entry, extract_entries_from_page              *)
(*                                                                         *)
(* A parsed page is the sequence of its elements in document order.  An    *)
(* element is known by the selectors of the strategy list it matches, by   *)
(* whether it is a div whose class matches (result|entry|row|item), by the *)
(* fields select_one finds in it and by whether it has any text.           *)
(***************************************************************************)

selectors ==
    << "table.results tbody tr", "table tbody tr", ".result-row", ".survey-result",
       "[class*='result']", ".card", "article" >>

FieldKeys == { "institution", "program", "decision", "date_added", "details", "comments" }

Element(kind, matches, div, fields, text) ==
    [kind |-> kind, matches |-> matches, div |-> div, fields |-> fields, text |-> text]

\* what an element can be, by tag, class and place
ElementKinds ==
    { << "tr in table.results tbody", { "table.results tbody tr", "table tbody tr" }, FALSE >>,
      << "tr in table tbody", { "table tbody tr" }, FALSE >>,
      << "tr in table", {}, FALSE >>,
      << "div.result-row", { ".result-row", "[class*='result']" }, TRUE >>,
      << "div.card", { ".card" }, FALSE >>,
      << "article", { "article" }, FALSE >>,
      << "div.entry", {}, TRUE >>,
      << "p", {}, FALSE >> }

\* what an element can hold: nothing; text but no field; fields
ElementContents ==
    { << {}, FALSE >>, << {}, TRUE >>, << { "institution", "program", "decision" }, TRUE >> }

Elements ==
    { Element(k[1], k[2], k[3], c[1], c[2]) : k \in ElementKinds, c \in ElementContents }

MaxElems == 2

Soups == SeqsUpTo(Elements, MaxElems)

\* soup.select(selector)
select(sp, selector) == SelectSeq(sp, LAMBDA e : selector \in e.matches)

\* soup.find_all("div", class_=re.compile(r"(result|entry|row|item)", re.I))
find_all_div(sp) == SelectSeq(sp, LAMBDA e : e.div)

\* the for loop over selectors without its break: rows is what the last selector
\* gives
select_first_NoBreak(sp, i) == select(sp, selectors[Len(selectors)])

\* lines 212-217: the for loop over selectors from the i-th on, with its break
RECURSIVE select_first(_, _)
select_first(sp, i) ==
    IF i > Len(selectors) THEN << >>
    ELSE LET found == select(sp, selectors[i])
         IN IF found # << >> THEN found ELSE select_first(sp, i + 1)

\* lines 211-222: rows
page_rows(sp) ==
    LET found == select_first(sp, 1)
    IN IF found = << >> THEN find_all_div(sp) ELSE found

\* parse_entry returning None
NoEntry == [keys |-> {}, raw_html |-> Element("none", {}, FALSE, {}, FALSE)]

\* parse_entry(row): the keys of the dictionary, and the element kept as raw_html
parse_entry(row) ==
    LET found == row.fields
        filled == IF found = {} /\ row.text THEN { "raw_content" } ELSE found
        entry == filled \cup { "raw_html" }
    IN IF entry # {} THEN [keys |-> entry, raw_html |-> row] ELSE NoEntry

\* lines 208-222
ExtractSelect ==
    /\ xpc = "start"
    /\ xrows' = page_rows(soup)
    /\ xentries' = << >>
    /\ xpos' = 0
    /\ xpc' = "rows"
    /\ UNCHANGED soup

\* lines 223-226: one turn of the for loop
ExtractRow ==
    /\ xpc = "rows"
    /\ xpos < Len(xrows)
    /\ LET entry == parse_entry(xrows[xpos + 1]) IN
          xentries' = IF entry # NoEntry THEN Append(xentries, entry) ELSE xentries
    /\ xpos' = xpos + 1
    /\ UNCHANGED << xpc, soup, xrows >>

\* line 228
ExtractReturn ==
    /\ xpc = "rows"
    /\ xpos = Len(xrows)
    /\ xpc' = "done"
    /\ UNCHANGED << soup, xrows, xpos, xentries >>

InitExtract ==
    /\ StoreInit /\ LoadOff /\ M3Off /\ CrawlOff /\ FetchOff /\ CleanOff /\ AppOff /\ MoreOff
    /\ xpc = "start" /\ soup \in Soups /\ xrows = << >> /\ xpos = 0 /\ xentries = << >>

NextExtract ==
    \/ ExtractSelect /\ UNCHANGED << storeVars, loadVars, m3Vars, crawlVars, fetchVars, cleanVars, appVars, moreVars >>
    \/ ExtractRow /\ UNCHANGED << storeVars, loadVars, m3Vars, crawlVars, fetchVars, cleanVars, appVars, moreVars >>
    \/ ExtractReturn /\ UNCHANGED << storeVars, loadVars, m3Vars, crawlVars, fetchVars, cleanVars, appVars, moreVars >>

SpecExtract == InitExtract /\ [][NextExtract]_vars

-----------------------------------------------------------------------------
(***************************************************************************)
(* Properties of the page extractor                                        *)
(***************************************************************************)

\* the strategies that match some element of the page
Matching == { i \in 1..Len(selectors) : \E j \in 1..Len(soup) : selectors[i] \in soup[j].matches }

IsTableRow(e) == "table tbody tr" \in e.matches
IsCard(e) == ".card" \in e.matches

IsEmptyElement(e) == e.fields = {} /\ ~ e.text

\* C16. Empty elements are discarded: a matched element with none of the fields
\* and no text gives no record, so a page whose matched elements are all empty
\* gives no entry.
C16_EmptyDiscarded ==
    xpc = "done" =>
        /\ \A k \in 1..Len(xentries) : ~ IsEmptyElement(xentries[k].raw_html)
        /\ (\A k \in 1..Len(xrows) : IsEmptyElement(xrows[k])) => xentries = << >>

-----------------------------------------------------------------------------
(***************************************************************************)
(* module_4/src/module_2/clean.py                                          *)
(*                                                                         *)
(* A value of a raw entry is a Python value: its type and, for a str, its  *)
(* text; for another type, the text str() gives.  "<" and ">" are tokens   *)
(* of their own, and so is each entity ("&lt;", "&gt;", "&amp;").  The     *)
(* texts are far shorter than the 1000 characters at which notes are cut.  *)
(***************************************************************************)

CANONICAL_SCHEMA ==
    << "school", "program", "decision", "decision_date", "gpa", "gre", "notes" >>

SchemaKeys == { CANONICAL_SCHEMA[i] : i \in 1..Len(CANONICAL_SCHEMA) }

Absent == [type |-> "absent", text |-> << >>]      \* key not in entry
PyNone == [type |-> "none", text |-> << >>]
Str(t) == [type |-> "str", text |-> t]
Num(t) == [type |-> "int", text |-> t]

\* key in entry and entry[key]
IsTrue(v) ==
    CASE v.type = "str" -> v.text # << >>
      [] v.type = "int" -> v.text # << "0" >>
      [] OTHER -> FALSE

\* entry.get(key)
Get(entry, key) == IF key \in DOMAIN entry THEN entry[key] ELSE Absent

\* re.sub(r"<[^>]*>", " ", text)
RECURSIVE _strip_html_tags(_)
_strip_html_tags(text) ==
    IF text = << >> THEN << >>
    ELSE LET closes == { j \in 2..Len(text) : text[j] = ">" }
         IN IF Head(text) = "<" /\ closes # {}
            THEN << " " >> \o _strip_html_tags(SubSeq(text, Min(closes) + 1, Len(text)))
            ELSE << Head(text) >> \o _strip_html_tags(Tail(text))

Entities ==
    [t \in { "&lt;", "&gt;", "&amp;" } |->
        CASE t = "&lt;" -> "<" [] t = "&gt;" -> ">" [] t = "&amp;" -> "&"]

\* html.unescape(text)
_unescape_html_entities(text) ==
    [i \in 1..Len(text) |-> IF text[i] \in DOMAIN Entities THEN Entities[text[i]] ELSE text[i]]

\* re.sub(r"\s+", " ", text).strip()
_collapse_whitespace(text) == Strip(Squeeze(text))

\* _clean_text(text): None gives "", a value that is not a str goes through str()
_clean_text(v) ==
    IF v.type = "none" THEN << >>
    ELSE _collapse_whitespace(_unescape_html_entities(_strip_html_tags(v.text)))

\* the tokens that hold a character outside \w and \s
NonWord ==
    { "<", ">", "&", "/", "/b", "/i", "/td", ",", ":", "|", "-", ".",
      "&lt;", "&gt;", "&amp;", "3.9", "3.5" }

WordOrSpace(t) == t \notin NonWord

\* index of the first token at or after i that is not in S (Len(s)+1 if none)
RECURSIVE SkipSet(_, _, _)
SkipSet(s, i, S) == IF i <= Len(s) /\ s[i] \in S THEN SkipSet(s, i + 1, S) ELSE i

\* the end of the run of \w and \s tokens that holds position i
RECURSIVE RunEnd(_, _)
RunEnd(s, i) == IF i < Len(s) /\ WordOrSpace(s[i + 1]) THEN RunEnd(s, i + 1) ELSE i

SchoolNouns == { "university", "college", "institute", "school" }

SchoolNames ==
    { "mit", "ucla", "usc", "nyu", "cmu", "caltech", "stanford", "harvard", "yale",
      "princeton" }

\* school_patterns, in their order: the text of the first match, or ""
SchoolMatch(tc) ==
    LET n == Len(tc)
        IsNoun(i) == Lower(tc[i]) \in SchoolNouns
        \* (?:University|...)\s+of\s+[\w\s]+
        hits1 == { i \in 1..n :
                     /\ IsNoun(i)
                     /\ LET j == SkipSpaces(tc, i + 1) IN
                           /\ j > i + 1 /\ j + 2 <= n
                           /\ Lower(tc[j]) = "of"
                           /\ IsSpace(tc[j + 1]) /\ WordOrSpace(tc[j + 2]) }
        \* [\w\s]+(?:University|...)
        ends2(p) == { q \in (p + 1)..n :
                        IsNoun(q) /\ \A r \in p..q : WordOrSpace(tc[r]) }
        hits2 == { p \in 1..n : ends2(p) # {} }
        \* (?:MIT|UCLA|...)
        hits3 == { i \in 1..n : Lower(tc[i]) \in SchoolNames }
    IN IF hits1 # {}
       THEN LET i == Min(hits1) IN Strip(SubSeq(tc, i, RunEnd(tc, SkipSpaces(tc, i + 1) + 1)))
       ELSE IF hits2 # {}
       THEN LET p == Min(hits2) IN Strip(SubSeq(tc, p, Max(ends2(p))))
       ELSE IF hits3 # {} THEN << tc[Min(hits3)] >>
       ELSE << >>

DecisionWords ==
    { "accepted", "rejected", "waitlisted", "interview", "pending", "denied", "admitted" }

\* \b(Accepted|Rejected|...)\b
DecisionMatch(tc) ==
    LET hits == { i \in 1..Len(tc) : Lower(tc[i]) \in DecisionWords }
    IN IF hits = {} THEN << >> ELSE << tc[Min(hits)] >>

GpaTokens == { "3.9", "3.5" }

\* \bGPA[:\s]*([0-9]\.[0-9]{1,2})\b
GpaMatch(tc) ==
    LET at(i) == SkipSet(tc, i + 1, { ":", " " })
        hits == { i \in 1..Len(tc) :
                    Lower(tc[i]) = "gpa" /\ at(i) <= Len(tc) /\ tc[at(i)] \in GpaTokens }
    IN IF hits = {} THEN << >> ELSE << tc[at(Min(hits))] >>

\* gre_patterns: GRE[:\s]*(\d{3})[/\s]+(\d{3}), then V[:\s]*(\d{3})[,\s]+Q[:\s]*(\d{3})
GreScoresMatch(tc) ==
    LET n == Len(tc)
        a1(i) == SkipSet(tc, i + 1, { ":", " " })
        b1(i) == SkipSet(tc, a1(i) + 1, { "/", " " })
        hits1 == { i \in 1..n :
                     /\ Lower(tc[i]) = "gre"
                     /\ a1(i) <= n /\ tc[a1(i)] \in Digits3
                     /\ b1(i) > a1(i) + 1 /\ b1(i) <= n /\ tc[b1(i)] \in Digits3 }
        q2(i) == SkipSet(tc, a1(i) + 1, { ",", " " })
        c2(i) == SkipSet(tc, q2(i) + 1, { ":", " " })
        hits2 == { i \in 1..n :
                     /\ tc[i] \in { "V", "v" }
                     /\ a1(i) <= n /\ tc[a1(i)] \in Digits3
                     /\ q2(i) > a1(i) + 1 /\ q2(i) <= n /\ tc[q2(i)] \in { "Q", "q" }
                     /\ c2(i) <= n /\ tc[c2(i)] \in Digits3 }
    IN IF hits1 # {} THEN LET i == Min(hits1) IN SubSeq(tc, i, b1(i))
       ELSE IF hits2 # {} THEN LET i == Min(hits2) IN SubSeq(tc, i, c2(i))
       ELSE << >>

\* date_patterns: \d{1,2}[/-]\d{1,2}[/-]\d{2,4}, then a month name, a day, a year
DateMatch(tc) ==
    LET n == Len(tc)
        d12 == DOMAIN MonthNum \cup DOMAIN DayNum
        d24 == DOMAIN Year2 \cup Year4
        hits1 == { i \in 1..(n - 4) :
                     /\ tc[i] \in d12 /\ tc[i + 1] \in { "/", "-" }
                     /\ tc[i + 2] \in d12 /\ tc[i + 3] \in { "/", "-" }
                     /\ tc[i + 4] \in d24 }
        day(i) == SkipSpaces(tc, i + 1)
        aft(i) == IF day(i) < n /\ tc[day(i) + 1] = "," THEN day(i) + 2 ELSE day(i) + 1
        yr(i) == SkipSpaces(tc, aft(i))
        hits2 == { i \in 1..n :
                     /\ tc[i] \in DOMAIN MonthFull \cup DOMAIN MonthAbbr
                     /\ day(i) > i + 1 /\ day(i) <= n /\ tc[day(i)] \in DOMAIN DayNum
                     /\ yr(i) > aft(i) /\ yr(i) <= n /\ tc[yr(i)] \in Year4 }
    IN IF hits1 # {} THEN SubSeq(tc, Min(hits1), Min(hits1) + 4)
       ELSE IF hits2 # {} THEN LET i == Min(hits2) IN SubSeq(tc, i, yr(i))
       ELSE << >>

\* _extract_from_raw_html(raw_html)
_extract_from_raw_html(raw_html) ==
    IF ~ IsTrue(raw_html) THEN [k \in SchemaKeys |-> << >>]
    ELSE LET text_content == _clean_text(raw_html) IN
         [k \in SchemaKeys |->
            CASE k = "school" -> SchoolMatch(text_content)
              [] k = "decision" -> DecisionMatch(text_content)
              [] k = "gpa" -> GpaMatch(text_content)
              [] k = "gre" -> GreScoresMatch(text_content)
              [] k = "decision_date" -> DateMatch(text_content)
              [] OTHER -> << >>]


\* for key in keys: if key in entry and entry[key]: _clean_text(entry[key]); break
FirstValue(entry, keys) ==
    LET hits == { i \in 1..Len(keys) : IsTrue(Get(entry, keys[i])) }
    IN IF hits = {} THEN << >> ELSE _clean_text(Get(entry, keys[Min(hits)]))

\* notes_parts, for the keys from the i-th on
RECURSIVE notes_parts(_, _, _)
notes_parts(entry, keys, i) ==
    IF i > Len(keys) THEN << >>
    ELSE LET v == Get(entry, keys[i])
             cleaned_value == IF IsTrue(v) THEN _clean_text(v) ELSE << >>
         IN (IF cleaned_value # << >> THEN << cleaned_value >> ELSE << >>)
                \o notes_parts(entry, keys, i + 1)

\* " | ".join(parts)
RECURSIVE Join(_)
Join(parts) ==
    IF parts = << >> THEN << >>
    ELSE IF Len(parts) = 1 THEN parts[1]
    ELSE parts[1] \o << " ", "|", " " >> \o Join(Tail(parts))

\* lines 218-272 of _map_entry_to_schema: the canonical fields from the keys
KeyMapped(entry) ==
    [k \in SchemaKeys |->
        CASE k = "school" -> FirstValue(entry, << "institution", "school", "university" >>)
          [] k = "program" ->
                FirstValue(entry, << "program", "major", "department", "degree" >>)
          [] k = "decision" -> FirstValue(entry, << "decision", "status", "result" >>)
          [] k = "decision_date" ->
                FirstValue(entry, << "date_added", "decision_date", "date",
                                     "notification_date" >>)
          [] k = "gpa" -> FirstValue(entry, << "gpa", "undergrad_gpa" >>)
          [] k = "gre" -> FirstValue(entry, << "gre", "gre_score", "gre_scores" >>)
          [] k = "notes" ->
                Join(notes_parts(entry, << "comments", "notes", "details", "raw_content" >>, 1))]

\* lines 275-276: the conditions under which _extract_from_raw_html is called
BackfillRuns(cleaned, entry) ==
    /\ IsTrue(Get(entry, "raw_html"))
    /\ cleaned["school"] = << >> \/ cleaned["program"] = << >> \/ cleaned["decision"] = << >>

\* the backfill taking every field _extract_from_raw_html found, filled or not
Backfill_Overwrite(cleaned, entry) ==
    IF BackfillRuns(cleaned, entry)
    THEN LET extracted == _extract_from_raw_html(Get(entry, "raw_html")) IN
         [k \in DOMAIN cleaned |->
            IF k \in SchemaKeys /\ extracted[k] # << >>
            THEN extracted[k] ELSE cleaned[k]]
    ELSE cleaned

\* lines 274-281
Backfill(cleaned, entry) ==
    IF BackfillRuns(cleaned, entry)
    THEN LET extracted == _extract_from_raw_html(Get(entry, "raw_html")) IN
         [k \in DOMAIN cleaned |->
            IF k \in SchemaKeys /\ cleaned[k] = << >> /\ extracted[k] # << >>
            THEN extracted[k] ELSE cleaned[k]]
    ELSE cleaned

\* the mapping that also carries the entry's raw_html over
_map_entry_to_schema_KeepRaw(entry) ==
    Backfill(KeyMapped(entry), entry) @@ ("raw_html" :> Get(entry, "raw_html").text)

_map_entry_to_schema(entry) == Backfill(KeyMapped(entry), entry)

\* the raw entries clean_data is given
TextMIT == << "MIT" >>
TextEscaped == << "&lt;", "b", "&gt;", "MIT", "&lt;", "/b", "&gt;" >>
TextTagged == << "<", "b", ">", "CS", "<", "/b", ">" >>
TextTagOnly == << "<", "br", ">" >>
HtmlRow ==
    << "<", "td", ">", "Stanford", " ", "University", "<", "/td", ">",
       "<", "td", ">", "Rejected", "<", "/td", ">",
       "<", "td", ">", "GPA", " ", "3.9", "<", "/td", ">" >>
HtmlEscaped == << "&lt;", "i", "&gt;", "Yale" >>

Dict(d) == [isdict |-> TRUE, d |-> d]
NotADict == [isdict |-> FALSE, d |-> [raw_content |-> Str(<< "text" >>)]]

RawEntries ==
    { Dict([institution |-> i, decision |-> dp[1], program |-> dp[2], raw_html |-> h]) :
        i \in { Absent, Str(TextMIT), Str(TextEscaped) },
        dp \in { << Absent, Absent >>, << Str(<< "Accepted" >>), Absent >>,
                 << Str(<< "Accepted" >>), Str(<< "CS" >>) >> },
        h \in { Absent, Str(HtmlRow), Str(HtmlEscaped) } }
      \cup { NotADict,
             Dict([institution |-> PyNone, school |-> Str(<< "Yale" >>),
                   program |-> Str(TextTagged), gpa |-> Num(<< "4" >>),
                   comments |-> Str(<< "great", " ", " ", "fit" >>),
                   details |-> Str(<< "GRE", " ", "320" >>)]),
             Dict([institution |-> Str(TextTagOnly), raw_html |-> Str(HtmlRow),
                   date_added |-> Str(<< "01", "/", "15", "/", "26" >>)]),
             Dict([comments |-> Str(<< "x", " ", "<" >>), details |-> Str(<< "y", " ", ">" >>)]) }

MaxEntries == 2

EntryLists == SeqsUpTo(RawEntries, MaxEntries)

\* lines 345-349: entry is not a dictionary, it is skipped
CleanSkip ==
    /\ kpc = "loop"
    /\ kpos < Len(raw_entries)
    /\ ~ raw_entries[kpos + 1].isdict
    /\ kpos' = kpos + 1
    /\ UNCHANGED << kpc, raw_entries, cleaned_entries, clean_log >>

\* lines 345-359: entry is mapped, its keys completed, and it is appended
CleanEntry ==
    /\ kpc = "loop"
    /\ kpos < Len(raw_entries)
    /\ raw_entries[kpos + 1].isdict
    /\ LET entry == raw_entries[kpos + 1].d
           mapped == _map_entry_to_schema(entry)
           cleaned == [k \in DOMAIN mapped \cup SchemaKeys |->
                          IF k \in DOMAIN mapped THEN mapped[k] ELSE << >>]
       IN /\ cleaned_entries' = Append(cleaned_entries, cleaned)
          /\ clean_log' = Append(clean_log,
                [index |-> kpos + 1, mapped |-> KeyMapped(entry),
                 ran |-> BackfillRuns(KeyMapped(entry), entry)])
    /\ kpos' = kpos + 1
    /\ UNCHANGED << kpc, raw_entries >>

\* lines 364-365
CleanReturn ==
    /\ kpc = "loop"
    /\ kpos = Len(raw_entries)
    /\ kpc' = "done"
    /\ UNCHANGED << raw_entries, kpos, cleaned_entries, clean_log >>

InitClean ==
    /\ StoreInit /\ LoadOff /\ M3Off /\ CrawlOff /\ FetchOff /\ ExtractOff /\ AppOff /\ MoreOff
    /\ kpc = "loop" /\ raw_entries \in EntryLists /\ kpos = 0
    /\ cleaned_entries = << >> /\ clean_log = << >>

NextClean ==
    \/ CleanSkip /\ UNCHANGED << storeVars, loadVars, m3Vars, crawlVars, fetchVars, extractVars, appVars, moreVars >>
    \/ CleanEntry /\ UNCHANGED << storeVars, loadVars, m3Vars, crawlVars, fetchVars, extractVars, appVars, moreVars >>
    \/ CleanReturn /\ UNCHANGED << storeVars, loadVars, m3Vars, crawlVars, fetchVars, extractVars, appVars, moreVars >>

SpecClean == InitClean /\ [][NextClean]_vars

-----------------------------------------------------------------------------
(***************************************************************************)
(* Properties of the cleaner                                               *)
(***************************************************************************)

\* a str: a sequence of tokens, which None is not
IsText(v) == v # None /\ \A j \in 1..Len(v) : v[j] \in STRING

\* the entries among the first n that are dictionaries, in their order
DictIndexes(n) == { j \in 1..n : raw_entries[j].isdict }

\* C17. The canonical schema: every record clean_data returns has exactly the
\* seven keys of CANONICAL_SCHEMA and every value is a string, the empty one for
\* unknown, never null; entries that are not dictionaries are skipped and the
\* others keep their order.
C17_CanonicalSchema ==
    /\ Cardinality(SchemaKeys) = 7
    /\ \A i \in 1..Len(cleaned_entries) :
          /\ DOMAIN cleaned_entries[i] = SchemaKeys
          /\ \A k \in SchemaKeys : IsText(cleaned_entries[i][k])
    /\ Len(cleaned_entries) = Len(clean_log)
    /\ { clean_log[i].index : i \in 1..Len(clean_log) } = DictIndexes(kpos)
    /\ \A i \in 1..(Len(clean_log) - 1) : clean_log[i].index < clean_log[i + 1].index
    /\ \A i \in 1..Len(clean_log) :
          \A k \in SchemaKeys :
              clean_log[i].mapped[k] # << >> =>
                  cleaned_entries[i][k] = KeyMapped(raw_entries[clean_log[i].index].d)[k]

C17_Witness ==
    /\ kpc = "done"
    /\ Len(raw_entries) = 2 /\ raw_entries[1] = NotADict
    /\ Get(raw_entries[2].d, "gpa") = Num(<< "4" >>)
    /\ Len(cleaned_entries) = 1
    /\ cleaned_entries[1]["gpa"] = << "4" >>
    /\ cleaned_entries[1]["school"] = << "Yale" >>
    /\ cleaned_entries[1]["decision"] = << >>

\* re.search(r"<[^>]+>", value)
HasTag(v) ==
    \E i, j \in 1..Len(v) :
        /\ v[i] = "<" /\ v[j] = ">" /\ j >= i + 2
        /\ \A r \in (i + 1)..(j - 1) : v[r] # ">"

\* C18. No markup survives cleaning: no value of a cleaned record holds a match
\* of the tag pattern <[^>]+>, whatever the raw entry (escaped markup and values
\* backfilled from raw_html included).
C18_NoMarkup ==
    \A i \in 1..Len(cleaned_entries) :
        \A k \in DOMAIN cleaned_entries[i] : ~ HasTag(cleaned_entries[i][k])

\* C19. The backfill only fills gaps: _extract_from_raw_html runs only when
\* school, program or decision is empty after the key mapping, and a field the
\* key mapping filled keeps its value; a field differs from its key-mapped value
\* only if it was empty.
C19_BackfillFillsGaps ==
    \A i \in 1..Len(cleaned_entries) :
        LET mapped == clean_log[i].mapped
            out == cleaned_entries[i]
        IN /\ clean_log[i].ran =>
                 \E k \in { "school", "program", "decision" } : mapped[k] = << >>
           /\ \A k \in SchemaKeys :
                 /\ mapped[k] # << >> => out[k] = mapped[k]
                 /\ out[k] # mapped[k] => mapped[k] = << >> /\ clean_log[i].ran
           /\ ~ clean_log[i].ran => \A k \in SchemaKeys : out[k] = mapped[k]

C19_Witness ==
    /\ kpc = "done" /\ Len(cleaned_entries) = 1
    /\ clean_log[1].ran
    /\ clean_log[1].mapped["school"] = TextMIT
    /\ clean_log[1].mapped["decision"] = << >>
    /\ cleaned_entries[1]["school"] = TextMIT
    /\ cleaned_entries[1]["decision"] = << "Rejected" >>
    /\ cleaned_entries[1]["gpa"] = << "3.9" >>

-----------------------------------------------------------------------------
(***************************************************************************)
(* module_4/src/app.py and module_5/src/app.py: the busy flag and the      *)
(* handlers of POST /pull-data and POST /update-analysis.  The two files   *)
(* differ in how the flag is stored (_busy, _STATE["busy"]) and in how the *)
(* connection is closed (try/finally, with); the handlers take the same    *)
(* steps.  The development server serves each request in its own thread,   *)
(* so the statements of two handlers interleave.  A BUSY_GETTER and        *)
(* BUSY_SETTER pair that reads and writes one flag behaves as _busy does.  *)
(***************************************************************************)

\* requests the clients send
MaxRequests == 3

RequestIds == 1..MaxRequests

Routes == { "/pull-data", "/update-analysis" }

NoRequest ==
    [route |-> "none", pc |-> "none", status |-> 0, body |-> "none", gate |-> "unread",
     raised |-> FALSE, scraped |-> FALSE, connected |-> FALSE, loaded |-> FALSE]

\* return jsonify(...), status
Respond(r, status, body) == [r EXCEPT !.pc = "done", !.status = status, !.body = body]

\* a client sends a request; requests are numbered in the order they arrive
Arrive(r, route) ==
    /\ req[r].pc = "none"
    /\ \A q \in 1..(r - 1) : req[q].pc # "none"
    /\ req' = [req EXCEPT ![r] = [NoRequest EXCEPT !.route = route, !.pc = "received"]]
    /\ UNCHANGED << _busy, DATABASE_URL, scraper_calls, loader_calls, connections, open_conns >>

\* pull_data without its gate
PullCheck_NoGate(r) ==
    /\ req[r].route = "/pull-data" /\ req[r].pc = "received"
    /\ req' = [req EXCEPT ![r] = [@ EXCEPT !.gate = IF _busy THEN "busy" ELSE "free",
                                           !.pc = "set"]]
    /\ UNCHANGED << _busy, DATABASE_URL, scraper_calls, loader_calls, connections, open_conns >>

\* pull_data: if _is_busy(): return jsonify({"busy": True}), 409
PullCheck(r) ==
    /\ req[r].route = "/pull-data" /\ req[r].pc = "received"
    /\ req' = [req EXCEPT ![r] =
                 IF _busy
                 THEN Respond([@ EXCEPT !.gate = "busy"], 409, "busy")
                 ELSE [@ EXCEPT !.gate = "free", !.pc = "set"]]
    /\ UNCHANGED << _busy, DATABASE_URL, scraper_calls, loader_calls, connections, open_conns >>

\* pull_data: _set_busy(True)
PullSetBusy(r) ==
    /\ req[r].pc = "set"
    /\ _busy' = TRUE
    /\ req' = [req EXCEPT ![r].pc = "scrape"]
    /\ UNCHANGED << DATABASE_URL, scraper_calls, loader_calls, connections, open_conns >>

\* pull_data calling the scraper outside any try/finally
PullScrape_NoFinally(r, ok) ==
    /\ req[r].pc = "scrape"
    /\ scraper_calls' = scraper_calls + 1
    /\ req' = [req EXCEPT ![r] =
                 IF ok THEN [@ EXCEPT !.scraped = TRUE, !.pc = "connect"]
                 ELSE Respond([@ EXCEPT !.scraped = TRUE, !.raised = TRUE], 500, "error")]
    /\ UNCHANGED << _busy, DATABASE_URL, loader_calls, connections, open_conns >>

\* pull_data: rows = scraper_fn(), which returns or raises
PullScrape(r, ok) ==
    /\ req[r].pc = "scrape"
    /\ scraper_calls' = scraper_calls + 1
    /\ req' = [req EXCEPT ![r] = [@ EXCEPT !.scraped = TRUE,
                                           !.raised = ~ ok,
                                           !.pc = IF ok THEN "connect" ELSE "finally"]]
    /\ UNCHANGED << _busy, DATABASE_URL, loader_calls, connections, open_conns >>

\* pull_data: conn = _get_db_connection(), which raises RuntimeError without a
\* DATABASE_URL and whatever psycopg.connect raises otherwise
PullConnect(r, ok) ==
    /\ req[r].pc = "connect"
    /\ IF DATABASE_URL /\ ok
       THEN /\ connections' = connections + 1
            /\ open_conns' = open_conns + 1
            /\ req' = [req EXCEPT ![r] = [@ EXCEPT !.connected = TRUE, !.pc = "load"]]
       ELSE /\ req' = [req EXCEPT ![r] = [@ EXCEPT !.raised = TRUE, !.pc = "finally"]]
            /\ UNCHANGED << connections, open_conns >>
    /\ UNCHANGED << _busy, DATABASE_URL, scraper_calls, loader_calls >>

\* pull_data: loader_fn(rows, conn), which returns or raises, and conn.close()
PullLoad(r, ok) ==
    /\ req[r].pc = "load"
    /\ loader_calls' = loader_calls + 1
    /\ open_conns' = open_conns - 1
    /\ req' = [req EXCEPT ![r] = [@ EXCEPT !.loaded = TRUE, !.raised = ~ ok, !.pc = "finally"]]
    /\ UNCHANGED << _busy, DATABASE_URL, scraper_calls, connections >>

\* pull_data: finally: _set_busy(False), then the response or the exception
PullFinally(r) ==
    /\ req[r].pc = "finally"
    /\ _busy' = FALSE
    /\ req' = [req EXCEPT ![r] =
                 IF req[r].raised THEN Respond(@, 500, "error") ELSE Respond(@, 200, "ok")]
    /\ UNCHANGED << DATABASE_URL, scraper_calls, loader_calls, connections, open_conns >>

\* update_analysis answering ok whatever the flag
UpdateAnalysis_NoGate(r) ==
    /\ req[r].route = "/update-analysis" /\ req[r].pc = "received"
    /\ req' = [req EXCEPT ![r] =
                 Respond([@ EXCEPT !.gate = IF _busy THEN "busy" ELSE "free"], 200, "ok")]
    /\ UNCHANGED << _busy, DATABASE_URL, scraper_calls, loader_calls, connections, open_conns >>

\* update_analysis
UpdateAnalysis(r) ==
    /\ req[r].route = "/update-analysis" /\ req[r].pc = "received"
    /\ req' = [req EXCEPT ![r] =
                 IF _busy
                 THEN Respond([@ EXCEPT !.gate = "busy"], 409, "busy")
                 ELSE Respond([@ EXCEPT !.gate = "free"], 200, "ok")]
    /\ UNCHANGED << _busy, DATABASE_URL, scraper_calls, loader_calls, connections, open_conns >>

InitApp ==
    /\ StoreInit /\ LoadOff /\ M3Off /\ CrawlOff /\ FetchOff /\ ExtractOff /\ CleanOff /\ MoreOff
    /\ _busy = FALSE /\ DATABASE_URL \in BOOLEAN
    /\ req = [r \in RequestIds |-> NoRequest]
    /\ scraper_calls = 0 /\ loader_calls = 0 /\ connections = 0 /\ open_conns = 0

NextApp ==
    \/ \E r \in RequestIds, route \in Routes :
          Arrive(r, route) /\ UNCHANGED << storeVars, loadVars, m3Vars, crawlVars, fetchVars, extractVars, cleanVars, moreVars >>
    \/ \E r \in RequestIds :
          PullCheck(r) /\ UNCHANGED << storeVars, loadVars, m3Vars, crawlVars, fetchVars, extractVars, cleanVars, moreVars >>
    \/ \E r \in RequestIds :
          PullSetBusy(r) /\ UNCHANGED << storeVars, loadVars, m3Vars, crawlVars, fetchVars, extractVars, cleanVars, moreVars >>
    \/ \E r \in RequestIds, ok \in BOOLEAN :
          PullScrape(r, ok) /\ UNCHANGED << storeVars, loadVars, m3Vars, crawlVars, fetchVars, extractVars, cleanVars, moreVars >>
    \/ \E r \in RequestIds, ok \in BOOLEAN :
          PullConnect(r, ok) /\ UNCHANGED << storeVars, loadVars, m3Vars, crawlVars, fetchVars, extractVars, cleanVars, moreVars >>
    \/ \E r \in RequestIds, ok \in BOOLEAN :
          PullLoad(r, ok) /\ UNCHANGED << storeVars, loadVars, m3Vars, crawlVars, fetchVars, extractVars, cleanVars, moreVars >>
    \/ \E r \in RequestIds :
          PullFinally(r) /\ UNCHANGED << storeVars, loadVars, m3Vars, crawlVars, fetchVars, extractVars, cleanVars, moreVars >>
    \/ \E r \in RequestIds :
          UpdateAnalysis(r) /\ UNCHANGED << storeVars, loadVars, m3Vars, crawlVars, fetchVars, extractVars, cleanVars, moreVars >>

SpecApp == InitApp /\ [][NextApp]_vars

-----------------------------------------------------------------------------
(***************************************************************************)
(* Properties of the application                                           *)
(***************************************************************************)

\* the step in which request r's pull_data handler reads the flag
PullGateStep(r) ==
    /\ req[r].route = "/pull-data" /\ req[r].pc = "received"
    /\ req'[r].pc # "received"

\* C20. Busy gate on pull: a POST /pull-data handled while the busy flag is set
\* returns 409 with {"busy": true}, calls neither the scraper nor the loader,
\* opens no database connection, and leaves the busy flag set.
C20_PullBusyGate ==
    /\ [][\A r \in RequestIds :
            PullGateStep(r) /\ _busy =>
                /\ req'[r].pc = "done"
                /\ req'[r].status = 409 /\ req'[r].body = "busy"
                /\ scraper_calls' = scraper_calls
                /\ loader_calls' = loader_calls
                /\ connections' = connections /\ open_conns' = open_conns
                /\ _busy']_vars
    /\ [](\A r \in RequestIds :
            req[r].route = "/pull-data" /\ req[r].gate = "busy" =>
                /\ req[r].pc = "done" /\ req[r].status = 409 /\ req[r].body = "busy"
                /\ ~ req[r].scraped /\ ~ req[r].connected /\ ~ req[r].loaded)

C20_Witness ==
    /\ _busy
    /\ req[1].route = "/pull-data" /\ req[1].pc = "load"
    /\ req[2].route = "/pull-data" /\ req[2].status = 409 /\ req[2].body = "busy"
    /\ scraper_calls = 1 /\ connections = 1 /\ loader_calls = 0


\* the step in which request r's update_analysis handler runs
UpdateStep(r) ==
    /\ req[r].route = "/update-analysis" /\ req[r].pc = "received"
    /\ req'[r].pc # "received"

\* C21. Busy gate on update: POST /update-analysis returns 409 {"busy": true}
\* if and only if the busy flag is set when the request is handled, and 200
\* {"ok": true} otherwise; it never changes the busy flag and never calls the
\* scraper or the loader.
C21_UpdateBusyGate ==
    /\ [][\A r \in RequestIds :
            UpdateStep(r) =>
                /\ req'[r].pc = "done"
                /\ (req'[r].status = 409 /\ req'[r].body = "busy") <=> _busy
                /\ (req'[r].status = 200 /\ req'[r].body = "ok") <=> ~ _busy
                /\ _busy' = _busy
                /\ scraper_calls' = scraper_calls /\ loader_calls' = loader_calls]_vars
    /\ [](\A r \in RequestIds :
            req[r].route = "/update-analysis" =>
                /\ ~ req[r].scraped /\ ~ req[r].loaded /\ ~ req[r].connected
                /\ req[r].pc \in { "received", "done" })

C21_Witness ==
    /\ req[1].route = "/pull-data" /\ req[1].pc = "scrape" /\ _busy
    /\ req[2].route = "/update-analysis" /\ req[2].status = 409 /\ req[2].body = "busy"
    /\ scraper_calls = 0 /\ loader_calls = 0


\* positions of pull_data after its gate
Admitted == { "set", "scrape", "connect", "load", "finally" }

\* request r is an admitted pull that has finished
FinishedPull(r) ==
    req[r].route = "/pull-data" /\ req[r].gate = "free" /\ req[r].pc = "done"

\* C22. The busy flag is always released: when an admitted POST /pull-data
\* finishes, whether the scraper, the connection or the loader returned or
\* raised, the busy flag is False; once every admitted pull has finished the
\* flag is False, so no finished pull blocks a later request.
C22_BusyReleased ==
    /\ [][\A r \in RequestIds :
            req[r].pc \in Admitted /\ req'[r].pc = "done" =>
                /\ ~ _busy'
                /\ req'[r].status = IF req[r].raised THEN 500 ELSE 200]_vars
    /\ []((\A r \in RequestIds : req[r].pc \notin Admitted) => ~ _busy)

C22_Witness ==
    /\ ~ _busy
    /\ FinishedPull(1) /\ req[1].status = 500 /\ req[1].loaded
    /\ FinishedPull(2) /\ req[2].status = 500 /\ req[2].scraped /\ ~ req[2].connected
    /\ req[3].route = "/update-analysis" /\ req[3].status = 200


\* the requests between _set_busy(True) and _set_busy(False)
Pulling == { r \in RequestIds : req[r].pc \in { "scrape", "connect", "load", "finally" } }

\* C29. Mutual exclusion of pulls: when POST /pull-data requests are handled
\* concurrently, interleaved at the read and the write of the busy flag, at most
\* one request is between _set_busy(True) and _set_busy(False) at any time, so
\* at most one loader call writes to the table at a time.
C29_MutualExclusion ==
    /\ Cardinality(Pulling) <= 1
    /\ open_conns <= 1

-----------------------------------------------------------------------------
(***************************************************************************)
(* module_4 load_data.py: split_notes, extract_university_from_notes and   *)
(* extract_program_from_notes called on one text                           *)
(***************************************************************************)

NoteTokens == { "MIT", "CS", " ", "|" }

\* tokens in a notes text
MaxNoteLen == 4

NoteTexts == SeqsUpTo(NoteTokens, MaxNoteLen) \cup { None }

NotesSplit ==
    /\ npc = "split"
    /\ nparts' = split_notes(ntext)
    /\ npc' = "university"
    /\ UNCHANGED << ntext, nuniversity, nprogram >>

NotesUniversity ==
    /\ npc = "university"
    /\ nuniversity' = extract_university_from_notes(ntext)
    /\ npc' = "program"
    /\ UNCHANGED << ntext, nparts, nprogram >>

NotesProgram ==
    /\ npc = "program"
    /\ nprogram' = extract_program_from_notes(ntext)
    /\ npc' = "done"
    /\ UNCHANGED << ntext, nparts, nuniversity >>

InitNotes ==
    /\ StoreInit /\ LoadOff /\ M3Off /\ CrawlOff /\ FetchOff
    /\ ExtractOff /\ CleanOff /\ AppOff /\ StatusOff
    /\ npc = "split" /\ ntext \in NoteTexts /\ nparts = << >>
    /\ nuniversity = None /\ nprogram = None

NextNotes ==
    \/ NotesSplit /\ UNCHANGED << storeVars, loadVars, m3Vars, crawlVars, fetchVars, extractVars, cleanVars, appVars, statusVars >>
    \/ NotesUniversity /\ UNCHANGED << storeVars, loadVars, m3Vars, crawlVars, fetchVars, extractVars, cleanVars, appVars, statusVars >>
    \/ NotesProgram /\ UNCHANGED << storeVars, loadVars, m3Vars, crawlVars, fetchVars, extractVars, cleanVars, appVars, statusVars >>

SpecNotes == InitNotes /\ [][NextNotes]_vars

-----------------------------------------------------------------------------
(***************************************************************************)
(* Properties of the notes helpers                                         *)
(***************************************************************************)

\* the segments of text.split("|"), each trimmed, empty ones kept in place
Segments(text) == [i \in 1..Len(SplitPipe(text)) |-> Strip(SplitPipe(text)[i])]

\* v is the segment, or absent for an empty segment
TakenFrom(v, seg) == v = seg \/ (seg = << >> /\ v = None)

\* C26. The decomposition of pipe-delimited notes is positional:
\* extract_university_from_notes returns segment 0 and
\* extract_program_from_notes returns segment 1 by position in the split, an
\* empty leading or middle segment shifting nothing, and each returns absent
\* when its segment does not exist.
C26_Positional ==
    npc = "done" =>
        IF ~ Truthy(ntext) THEN nuniversity = None /\ nprogram = None
        ELSE LET segs == Segments(ntext) IN
             /\ TakenFrom(nuniversity, segs[1])
             /\ Len(segs) >= 2 => TakenFrom(nprogram, segs[2])
             /\ Len(segs) < 2 => nprogram = None

-----------------------------------------------------------------------------
(***************************************************************************)
(* module_3 app.py: scrape_status.scrape_running, the scraper subprocess   *)
(* and the handlers of POST /pull-data and POST /update-analysis.  Each    *)
(* handler flashes one message and redirects to the analysis page.         *)
(***************************************************************************)

\* flashed messages kept in the history
MaxFlashes == 6

\* flash(message): the history keeps the last MaxFlashes messages
Flash(message) ==
    IF Len(flashes) < MaxFlashes THEN Append(flashes, message)
    ELSE Append(Tail(flashes), message)

\* pull_data; subprocess.Popen starts the scraper or raises (no "py" launcher)
M3PullData(launched) ==
    /\ IF scrape_running
       THEN /\ flashes' = Flash("Data pull already in progress.")
            /\ UNCHANGED << scrape_running, proc >>
       ELSE /\ scrape_running' = TRUE
            /\ IF launched
               THEN /\ proc' = "running"
                    /\ flashes' = Flash("Pull Data started. This may take several minutes.")
               ELSE /\ flashes' = Flash("raised")
                    /\ UNCHANGED proc
    /\ UNCHANGED notesVars

\* the scraper subprocess ends
ProcExit ==
    /\ proc = "running"
    /\ proc' = "finished"
    /\ UNCHANGED << scrape_running, flashes, notesVars >>

\* update_analysis
M3UpdateAnalysis ==
    /\ flashes' = Flash(IF scrape_running
                        THEN "Cannot update analysis while data is being pulled."
                        ELSE "Analysis updated with latest data.")
    /\ UNCHANGED << scrape_running, proc, notesVars >>

InitStatus ==
    /\ StoreInit /\ LoadOff /\ M3Off /\ CrawlOff /\ FetchOff
    /\ ExtractOff /\ CleanOff /\ AppOff /\ NotesOff
    /\ scrape_running = FALSE /\ proc = "none" /\ flashes = << >>

NextStatus ==
    \/ \E launched \in BOOLEAN :
          M3PullData(launched) /\ UNCHANGED << storeVars, loadVars, m3Vars, crawlVars, fetchVars, extractVars, cleanVars, appVars >>
    \/ ProcExit /\ UNCHANGED << storeVars, loadVars, m3Vars, crawlVars, fetchVars, extractVars, cleanVars, appVars >>
    \/ M3UpdateAnalysis /\ UNCHANGED << storeVars, loadVars, m3Vars, crawlVars, fetchVars, extractVars, cleanVars, appVars >>

\* requests keep coming and are handled; the subprocess runs to its end
StatusFrame ==
    UNCHANGED << storeVars, loadVars, m3Vars, crawlVars, fetchVars, extractVars, cleanVars, appVars >>

SpecStatus ==
    /\ InitStatus /\ [][NextStatus]_vars
    /\ WF_vars(ProcExit /\ StatusFrame)
    /\ WF_vars(M3UpdateAnalysis /\ StatusFrame)
    /\ WF_vars((\E launched \in BOOLEAN : M3PullData(launched)) /\ StatusFrame)

-----------------------------------------------------------------------------
(***************************************************************************)
(* Properties of the module_3 application                                  *)
(***************************************************************************)

\* C30. The module 3 busy flag eventually clears: once POST /pull-data has
\* launched the scraper subprocess and the subprocess has finished,
\* scrape_running eventually becomes False, so later requests are not rejected
\* forever.
C30_EventuallyClears ==
    (scrape_running /\ proc = "finished") ~> ~ scrape_running

-----------------------------------------------------------------------------
(***************************************************************************)
(* Properties of the backoff                                               *)
(***************************************************************************)

\* MIN_DELAY * RETRY_BACKOFF^(k-1)
RECURSIVE Geometric(_)
Geometric(k) == IF k = 1 THEN MIN_DELAY ELSE RETRY_BACKOFF * Geometric(k - 1)

\* the waits make_request slept, in order
Waits(trace) ==
    LET sl == SelectSeq(trace, LAMBDA e : e.ev = "sleep") IN [i \in 1..Len(sl) |-> sl[i].n]

\* C25. The exponential backoff schedule: the wait slept before retry number k
\* (k = 1..MAX_RETRIES) is MIN_DELAY * RETRY_BACKOFF^(k-1) seconds, 1, 2, 4, 8,
\* 16 with the configuration, the same after a retryable HTTP status and after
\* a transport error, and nothing is slept after the final failed attempt.
C25_BackoffSchedule ==
    fpc = "returned" =>
        LET t == fres.trace IN
           /\ Len(t) = 2 * fres.attempts - 1
           /\ \A k \in 1..fres.attempts : t[2 * k - 1] = RequestEv(k - 1)
           /\ \A k \in 1..(fres.attempts - 1) :
                 /\ k <= MAX_RETRIES
                 /\ Attempted[k] \in Transient
                 /\ t[2 * k] = SleepEv("backoff", Geometric(k))
           /\ fres.attempts = MAX_RETRIES + 1 => Waits(t) = << 1, 2, 4, 8, 16 >>

C25_Witness ==
    /\ fpc = "returned"
    /\ fenv = << HttpError(429), UrlError, HttpError(503), UrlError, HttpError(500), UrlError >>
    /\ fres.content = HtmlNone /\ fres.attempts = MAX_RETRIES + 1
    /\ Waits(fres.trace) = << 1, 2, 4, 8, 16 >>
    /\ fres.trace[Len(fres.trace)] = RequestEv(MAX_RETRIES)

-----------------------------------------------------------------------------
(***************************************************************************)
(* Termination of the crawl.  scrape_data runs to its end once started:    *)
(* every call it makes (sleep, urlopen with its timeout, the parser)       *)
(* returns, so every step that is enabled is eventually taken.             *)
(***************************************************************************)

\* what urlopen gives for page p: an answer or a lasting failure at once, or
\* retried failures until the attempts are used up
LiveEnvs(p) ==
    { env \in CrawlEnvs(p) : env[1] \notin Transient \/ env[MAX_RETRIES + 1] \in Transient }

NextLive ==
    \/ \E o \in RobotsOutcomes : CheckRobots(o) /\ UNCHANGED << storeVars, loadVars, m3Vars, fetchVars, extVars >>
    \/ TargetReached /\ UNCHANGED << storeVars, loadVars, m3Vars, fetchVars, extVars >>
    \/ \E d \in { MIN_DELAY, MAX_DELAY } : StartPage(d) /\ UNCHANGED << storeVars, loadVars, m3Vars, fetchVars, extVars >>
    \/ \E env \in LiveEnvs(current_page) : Fetch(env) /\ UNCHANGED << storeVars, loadVars, m3Vars, fetchVars, extVars >>
    \/ FetchFailed /\ UNCHANGED << storeVars, loadVars, m3Vars, fetchVars, extVars >>
    \/ EmptyPage /\ UNCHANGED << storeVars, loadVars, m3Vars, fetchVars, extVars >>
    \/ AppendPage /\ UNCHANGED << storeVars, loadVars, m3Vars, fetchVars, extVars >>

SpecLive == Init /\ [][NextLive]_vars /\ WF_vars(NextLive)

\* what is left to do: records short of the target, weighted by the threshold,
\* and non-productive pages short of the threshold
Variant ==
    max_consecutive_empty * Max({ TARGET_ENTRIES - Len(all_entries), 0 })
        + (max_consecutive_empty - consecutive_empty)

\* C27. Termination of the crawl: whatever the pages give (failures, empty
\* pages, pages with entries) and whatever the finite TARGET_ENTRIES,
\* scrape_data eventually returns; every iteration appends at least one record,
\* raises the count of consecutive non-productive pages, or stops; and the fetch
\* of a page makes a bounded number of attempts.
C27_Terminates ==
    /\ <>(cpc = "done")
    /\ [](Variant >= 0)
    /\ [][cpc = "fetched" =>
             \/ cpc' = "done"
             \/ /\ cpc' = "check"
                /\ \/ Len(all_entries') > Len(all_entries)
                   \/ consecutive_empty' = consecutive_empty + 1
                /\ Variant' < Variant]_vars
    /\ [](Cardinality(Requests(events)) <= MAX_RETRIES + 1)

C27_Witness ==
    /\ cpc = "done" /\ robots = "allowed" /\ TARGET_ENTRIES = BigTarget
    /\ Len(page_log) = 6
    /\ page_log[1].entries = 1 /\ ~ page_log[2].fetched /\ page_log[3].entries = BigPage
    /\ \A p \in 4..6 : page_log[p].entries = 0
    /\ ~ result.target_reached

=============================================================================
